---------------------------- MODULE Spec2Model ----------------------------
(***************************************************************************)
(* A model of witch's watcher (src/watcher/watcher.go): a polling file     *)
(* watcher that resolves glob arguments to a set of targets and diffs it   *)
(* against the set of the previous scan.                                   *)
(*                                                                         *)
(* Strings are sequences of one-character strings, so that Split, Join,    *)
(* Clean, Abs and pattern matching are computed, not assumed.              *)
(***************************************************************************)
EXTENDS Naturals, Integers, Sequences, FiniteSets, TLC

VARIABLES
    fs,       \* the file system: node -> [kind, mt]
    watches,  \* Watcher.watches: sequence of glob strings
    ignores,  \* Watcher.ignores: sequence of glob strings
    prev,     \* Watcher.prev: [nil, m]; m maps a path to its FileInfo
    ret,      \* what the last call returned, with the inputs it saw
    trav,     \* input and result of the last ignore-aware traversal
    main,     \* main's scan loop: where it is, and its numTargets
    glob,     \* a pattern (and the character class it spells, if it is
              \* one), with the name it is matched against or the names
              \* it has been expanded to
    cmd,      \* the command: main.go's prev and ready, the processes
              \* started and the goroutines that wait on them
    sched,    \* the scan loop's nextWatch, nextTick and sleep, with what
              \* its last iteration did and the time slept so far
    writer,   \* a CmdWriter's buffer, with its last call: the buffer it
              \* found and what it wrote to the file
    hist      \* what the scans before the last call of the watcher did:
              \* Watcher.prev as the last successful one left it, the
              \* failed ones since, and the call just before

vars ==
    <<fs, watches, ignores, prev, ret, trav, main, glob, cmd, sched, writer,
      hist>>

---------------------------------------------------------------------------
(* Bounds *)

\* modification times range over 1..MaxTime
MaxTime == 2

---------------------------------------------------------------------------
(* Strings *)

Sep == "/"

\* the sequence s without its first n elements
Drop(s, n) == SubSeq(s, n + 1, Len(s))

\* strings.HasPrefix
HasPrefix(s, p) == Len(p) <= Len(s) /\ SubSeq(s, 1, Len(p)) = p

\* the index of the first Sep in s, or 0
RECURSIVE IndexSep(_, _)
IndexSep(s, i) ==
    IF i > Len(s) THEN 0
    ELSE IF s[i] = Sep THEN i
    ELSE IndexSep(s, i + 1)

\* strings.Split(s, "/"): the segments between separators, empty ones kept
RECURSIVE Split(_)
Split(s) ==
    LET i == IndexSep(s, 1) IN
    IF i = 0 THEN <<s>>
    ELSE <<SubSeq(s, 1, i - 1)>> \o Split(Drop(s, i))

\* strings.Join(segs, "/")
RECURSIVE JoinSegs(_)
JoinSegs(segs) ==
    IF Len(segs) = 0 THEN <<>>
    ELSE IF Len(segs) = 1 THEN segs[1]
    ELSE segs[1] \o <<Sep>> \o JoinSegs(Tail(segs))

\* the segments of a path that filepath.Clean keeps: empty and "." segments
\* are dropped, ".." removes the segment before it
RECURSIVE CleanSegs(_, _)
CleanSegs(segs, acc) ==
    IF Len(segs) = 0 THEN acc
    ELSE LET s == Head(segs) IN
         CleanSegs(Tail(segs),
                   IF s = <<>> \/ s = <<".">> THEN acc
                   ELSE IF s = <<".", ".">>
                        THEN IF Len(acc) = 0 THEN acc
                             ELSE SubSeq(acc, 1, Len(acc) - 1)
                   ELSE Append(acc, s))

IsAbs(s) == Len(s) > 0 /\ s[1] = Sep

\* filepath.Clean
Clean(s) ==
    LET body == JoinSegs(CleanSegs(Split(s), <<>>)) IN
    IF IsAbs(s) THEN <<Sep>> \o body
    ELSE IF body = <<>> THEN <<".">>
    ELSE body

\* the working directory of the process
Cwd == <<"/", "w">>

\* filepath.Join(a, b)
Join(a, b) == Clean(a \o <<Sep>> \o b)

\* filepath.Abs
Abs(s) == IF IsAbs(s) THEN Clean(s) ELSE Join(Cwd, s)


---------------------------------------------------------------------------
(* The file system *)

Root  == Cwd
NodeA == <<"/", "w", "/", "a">>
NodeB == <<"/", "w", "/", "a", "/", "b">>
NodeC == <<"/", "w", "/", "a", "/", "b", "/", "c">>
NodeE == <<"/", "w", "/", "e">>

\* every path that may exist; Root always exists and is a directory
Nodes == {Root, NodeA, NodeB, NodeC, NodeE}

Times == 1..MaxTime

Absent == [kind |-> "none", mt |-> 0]

\* the last segment of a path (os.FileInfo.Name)
Base(p) == LET segs == Split(p) IN segs[Len(segs)]

\* the path without its last segment
Parent(p) ==
    LET segs == Split(p) IN
    IF Len(segs) <= 2 THEN <<Sep>>
    ELSE JoinSegs(SubSeq(segs, 1, Len(segs) - 1))

\* d is a proper ancestor directory of p, compared by whole segments
IsAncestor(d, p) == d # p /\ HasPrefix(p, d \o <<Sep>>)

\* the function f written out entry by entry, so that applying it is a
\* lookup
Table(f) == f @@ <<>>

\* Parent, Base and IsAncestor tabulated over the nodes
ParentOf == Table([n \in Nodes |-> Parent(n)])
BaseOf   == Table([n \in Nodes |-> Base(n)])
Below    == Table([d \in Nodes |-> {n \in Nodes : n = d \/ IsAncestor(d, n)}])

Exists(f, p) == p \in DOMAIN f /\ f[p].kind # "none"
IsDir(f, p)  == Exists(f, p) /\ f[p].kind = "dir"

\* the entries ioutil.ReadDir(d) lists
Children(f, d) == {n \in DOMAIN f : Exists(f, n) /\ ParentOf[n] = d}


\* os.FileInfo of an existing path
InfoOf(f, p) == [name |-> BaseOf[p], mt |-> f[p].mt, dir |-> f[p].kind = "dir"]

---------------------------------------------------------------------------
(* filepath.Match and filepath.Glob, as watcher.go calls them *)

\* the order of the characters, for the ranges of a character class
Alphabet == <<"*", "-", ".", "/", "?", "[", "\\", "]", "^",
              "a", "b", "c", "e", "w", "{", "}">>

Ord(c) == CHOOSE i \in 1..Len(Alphabet) : Alphabet[i] = c

\* one possibly escaped character of a class, read at p[j]
GetEsc(p, j) ==
    IF j > Len(p) \/ p[j] = "-" \/ p[j] = "]"
        THEN [bad |-> TRUE, ch |-> "", next |-> j]
    ELSE IF p[j] = "\\"
        THEN IF j + 1 > Len(p) \/ j + 2 > Len(p)
                THEN [bad |-> TRUE, ch |-> "", next |-> j]
                ELSE [bad |-> FALSE, ch |-> p[j + 1], next |-> j + 2]
    ELSE IF j + 1 > Len(p)
        THEN [bad |-> TRUE, ch |-> "", next |-> j]
        ELSE [bad |-> FALSE, ch |-> p[j], next |-> j + 1]

\* the ranges of a class from p[j] on, matched against character c
RECURSIVE ClassScan(_, _, _, _, _)
ClassScan(p, j, c, nrange, hit) ==
    IF j > Len(p) THEN [bad |-> TRUE, end |-> j, hit |-> FALSE]
    ELSE IF p[j] = "]" /\ nrange > 0 THEN [bad |-> FALSE, end |-> j, hit |-> hit]
    ELSE LET lo == GetEsc(p, j)
             \* hi = lo when the range is a single character
             hi == IF ~lo.bad /\ p[lo.next] = "-" THEN GetEsc(p, lo.next + 1) ELSE lo
         IN  IF lo.bad \/ hi.bad THEN [bad |-> TRUE, end |-> j, hit |-> FALSE]
             ELSE ClassScan(p, hi.next, c, nrange + 1,
                      hit \/ (Ord(lo.ch) <= Ord(c) /\ Ord(c) <= Ord(hi.ch)))

\* (variant) a class that takes a leading ^ for a member
ClassPlain(p, i, c) == ClassScan(p, i + 1, c, 0, FALSE)

\* the class that opens at p[i], matched against character c
Class(p, i, c) ==
    LET neg  == i + 1 <= Len(p) /\ p[i + 1] = "^"
        scan == ClassScan(p, IF neg THEN i + 2 ELSE i + 1, c, 0, FALSE)
    IN  [bad |-> scan.bad, end |-> scan.end, hit |-> scan.hit # neg]

\* what stands for the class where p[i] opens none: the one character p[i]
NoClass(i) == [bad |-> FALSE, end |-> i, hit |-> FALSE]

\* filepath.ErrBadPattern: the pattern is malformed from p[i] on
RECURSIVE BadFrom(_, _)
BadFrom(p, i) ==
    IF i > Len(p) THEN FALSE
    ELSE LET cl   == IF p[i] = "[" THEN Class(p, i, "a") ELSE NoClass(i)
             bad  == IF p[i] = "\\" THEN i + 1 > Len(p) ELSE cl.bad
             next == IF p[i] = "\\" THEN i + 2 ELSE cl.end + 1
         IN  bad \/ BadFrom(p, next)

BadPattern(p) == BadFrom(p, 1)

\* (variant) a match whose star and question mark take any character,
\* separators too
RECURSIVE MatchAtAcross(_, _, _, _)
MatchAtAcross(p, i, s, k) ==
    IF i > Len(p) THEN k > Len(s)
    ELSE LET cl == IF p[i] = "[" /\ k <= Len(s) THEN Class(p, i, s[k]) ELSE NoClass(i)
             one == /\ k <= Len(s)
                    /\ IF p[i] = "?" THEN TRUE
                       ELSE IF p[i] = "\\" THEN s[k] = p[i + 1]
                       ELSE IF p[i] = "[" THEN cl.hit
                       ELSE s[k] = p[i]
             ks == IF p[i] = "*" THEN k..(Len(s) + 1)
                   ELSE IF one THEN {k + 1}
                   ELSE {}
             next == IF p[i] = "\\" THEN i + 2 ELSE cl.end + 1
         IN  \E k2 \in ks : MatchAtAcross(p, next, s, k2)

\* filepath.Match for a well-formed pattern: p from i on matches s from k on
RECURSIVE MatchAt(_, _, _, _)
MatchAt(p, i, s, k) ==
    IF i > Len(p) THEN k > Len(s)
    ELSE LET cl == IF p[i] = "[" /\ k <= Len(s) THEN Class(p, i, s[k]) ELSE NoClass(i)
             \* the one character s[k] matches the chunk at p[i]
             one == /\ k <= Len(s)
                    /\ IF p[i] = "?" THEN s[k] # Sep
                       ELSE IF p[i] = "\\" THEN s[k] = p[i + 1]
                       ELSE IF p[i] = "[" THEN cl.hit
                       ELSE s[k] = p[i]
             \* where the rest of s may start: a star takes any run without Sep
             ks == IF p[i] = "*"
                       THEN {k2 \in k..(Len(s) + 1) : \A j \in k..(k2 - 1) : s[j] # Sep}
                   ELSE IF one THEN {k + 1}
                   ELSE {}
             next == IF p[i] = "\\" THEN i + 2 ELSE cl.end + 1
         IN  \E k2 \in ks : MatchAt(p, next, s, k2)

Match(p, s) == MatchAt(p, 1, s, 1)

\* filepath's hasMeta
HasMeta(p) == \E i \in 1..Len(p) : p[i] \in {"*", "?", "[", "\\"}

\* the index of the last Sep of p, or 0
LastSep(p) ==
    IF \E i \in 1..Len(p) : p[i] = Sep
    THEN CHOOSE i \in 1..Len(p) : p[i] = Sep /\ \A j \in (i + 1)..Len(p) : p[j] # Sep
    ELSE 0

\* filepath's cleanGlobPath of the directory part of a pattern
GlobDir(p) ==
    LET i == LastSep(p) IN
    IF i = 0 THEN <<".">>
    ELSE IF i = 1 THEN <<Sep>>
    ELSE SubSeq(p, 1, i - 1)

GlobFile(p) == Drop(p, LastSep(p))

\* filepath's glob: the entries of directory dir whose name matches pattern
GlobIn(f, dir, pattern) ==
    IF ~IsDir(f, Abs(dir)) THEN {}
    ELSE {Join(dir, BaseOf[n]) : n \in {c \in Children(f, Abs(dir)) : Match(pattern, BaseOf[c])}}

\* filepath.Glob of a well-formed pattern: the names of the matching files,
\* spelled as the pattern spells them
RECURSIVE Glob(_, _)
Glob(f, pattern) ==
    IF ~HasMeta(pattern)
        THEN IF Exists(f, Abs(pattern)) THEN {pattern} ELSE {}
    ELSE LET dir == GlobDir(pattern) file == GlobFile(pattern) IN
         IF ~HasMeta(dir) THEN GlobIn(f, dir, file)
         ELSE UNION {GlobIn(f, d, file) : d \in Glob(f, dir)}

---------------------------------------------------------------------------
(* Maps and iteration orders *)

EmptyMap == [p \in {} |-> Absent]

Restrict(m, S) == [p \in S |-> m[p]]

\* (variant) a delete that leaves the map as it is
DeleteNothing(m, p) == m

\* delete(m, p)
Delete(m, p) == Restrict(m, DOMAIN m \ {p})

\* every order in which the elements of S can be enumerated
RECURSIVE Orders(_)
Orders(S) ==
    IF S = {} THEN {<<>>}
    ELSE UNION {{<<x>> \o t : t \in Orders(S \ {x})} : x \in S}

OrdersOf == Table([S \in SUBSET Nodes |-> Orders(S)])

\* the keys of map m in the order a range loop visits them, when the
\* runtime enumerates keys in the order ord
RECURSIVE RangeKeys(_, _)
RangeKeys(m, ord) ==
    IF Len(ord) = 0 THEN <<>>
    ELSE (IF Head(ord) \in DOMAIN m THEN <<Head(ord)>> ELSE <<>>)
         \o RangeKeys(m, Tail(ord))

---------------------------------------------------------------------------
(* The watcher: src/watcher/watcher.go *)

Added   == "added"
Changed == "changed"
Removed == "removed"

\* Watcher.prev == nil
NilPrev == [nil |-> TRUE, m |-> EmptyMap]

\* New
New == [watches |-> <<>>, ignores |-> <<>>, prev |-> NilPrev]

\* Watch
Watch(w, arg) == [w EXCEPT !.watches = Append(@, arg)]

\* Ignore
Ignore(w, arg) == [w EXCEPT !.ignores = Append(@, arg)]

\* glob arguments
ArgA     == <<"a">>
ArgAB    == <<"a", "/", "b">>
ArgABC   == <<"a", "/", "b", "/", "c">>
ArgAStar == <<"a", "/", "*">>
ArgE     == <<"e">>
ArgOpen  == <<"[">>
ArgSlash == <<"a", "\\">>
ArgBrace == <<"{", "a">>

\* the watchers main sets up: New, then Watch and Ignore per argument
Setups ==
    { Ignore(Watch(New, ArgA), ArgAB),
      Watch(Watch(New, ArgAStar), ArgE),
      Ignore(Watch(Watch(New, ArgABC), ArgE), ArgE),
      Watch(Watch(New, ArgOpen), ArgE),
      Ignore(Watch(New, ArgE), ArgSlash),
      Watch(Watch(New, ArgBrace), ArgE) }

\* every argument in use
Args ==
    UNION {{w.watches[i] : i \in 1..Len(w.watches)}
           \cup {w.ignores[i] : i \in 1..Len(w.ignores)} : w \in Setups}

\* (variant) a round of the loop of expandArgs that takes a malformed
\* pattern for one that matches nothing
expandArgSkip(f, arg) ==
    IF BadPattern(arg) THEN [err |-> FALSE, m |-> {}]
    ELSE [err |-> FALSE, m |-> {Abs(x) : x \in Glob(f, arg)}]

\* one round of the loop of expandArgs: the glob error, or the absolute
\* paths of the expansion of arg
expandArg(f, arg) ==
    IF BadPattern(arg) THEN [err |-> TRUE, m |-> {}]
    ELSE [err |-> FALSE, m |-> {Abs(x) : x \in Glob(f, arg)}]

\* expandArg reads of the file system only what exists and what is a
\* directory; it is tabulated over these shapes and the arguments in use
Shapes ==
    {sh \in [Nodes -> {[kind |-> "none"], [kind |-> "file"], [kind |-> "dir"]}] :
        /\ sh[Root].kind = "dir"
        /\ \A n \in Nodes \ {Root} : Exists(sh, n) => IsDir(sh, ParentOf[n])}

ShapeOf(f) == [n \in Nodes |-> [kind |-> f[n].kind]]

ExpandTable ==
    Table([sh \in Shapes, arg \in Args |-> expandArg(sh, arg)])

\* expandArgs after its loop: the first glob error, or all the paths
expandAll(ex) ==
    IF \E e \in ex : e.err THEN [err |-> TRUE, m |-> {}]
    ELSE [err |-> FALSE, m |-> UNION {e.m : e \in ex}]

\* expandArgs: the absolute paths the arguments expand to, or the glob error
expandArgs(f, args) ==
    expandAll({ExpandTable[ShapeOf(f), args[i]] : i \in 1..Len(args)})

\* getWatches after its two calls of expandArgs: their error, or the
\* watches that are not ignores
subtract(ws, is) ==
    IF ws.err \/ is.err THEN [err |-> TRUE, paths |-> {}]
    ELSE [err |-> FALSE, paths |-> {p \in ws.m : p \notin is.m}]

\* getWatches: the expanded watches that are not expanded ignores
getWatches(f, w, ig) == subtract(expandArgs(f, w), expandArgs(f, ig))

\* A scan may meet one fault of the file system: a listed path is gone when
\* it is stat'ed ("vanish"), or a directory cannot be read ("readdir").
NoFault == [kind |-> "none", path |-> <<>>]

\* the faults that can befall a scan that visits the paths of visited
FaultsOn(f, visited) ==
    {NoFault}
    \cup {[kind |-> "vanish", path |-> n] : n \in visited \ {Root}}
    \cup {[kind |-> "readdir", path |-> n] : n \in {x \in visited : IsDir(f, x)}}

\* os.Stat(p) fails
StatFails(f, fault, p) ==
    \/ ~Exists(f, p)
    \/ fault.kind = "vanish" /\ p \in Below[fault.path]

\* ioutil.ReadDir(p) fails
ReadDirFails(fault, p) == fault.kind = "readdir" /\ fault.path = p

ScanError == [err |-> TRUE, m |-> EmptyMap]

\* scan: every path of paths and, recursively, every entry below it,
\* with its FileInfo; an error of Stat or ReadDir fails the whole scan.
\* (A later assignment to result[path] overwrites an earlier one: m1 @@ m2
\* prefers m1.  Every value stored for a path is the same Stat result.)
RECURSIVE scan(_, _, _)
scan(f, fault, paths) ==
    IF paths = {} THEN [err |-> FALSE, m |-> EmptyMap]
    ELSE LET path == CHOOSE p \in paths : TRUE
             rest == scan(f, fault, paths \ {path})
         IN  IF StatFails(f, fault, path) THEN ScanError
             ELSE LET info == InfoOf(f, path) IN
                  IF ~info.dir
                      THEN IF rest.err THEN ScanError
                           ELSE [err |-> FALSE, m |-> rest.m @@ (path :> info)]
                  ELSE IF ReadDirFails(fault, path) THEN ScanError
                  ELSE LET children == scan(f, fault, Children(f, path)) IN
                       IF children.err \/ rest.err THEN ScanError
                       ELSE [err |-> FALSE,
                             m |-> rest.m @@ children.m @@ (path :> info)]

\* the largest of a set of numbers, 0 for none
Max(ns) == IF ns = {} THEN 0 ELSE CHOOSE n \in ns : \A k \in ns : k <= n

\* a scan that recurses on the entries of every path, directory or not
RECURSIVE scanDepthAny(_, _, _)
scanDepthAny(f, fault, paths) ==
    1 + Max({scanDepthAny(f, fault, Children(f, path)) :
                path \in {p \in paths : ~StatFails(f, fault, p)}})

\* the calls of scan nested at the deepest point of scan(paths), itself
\* included: scan calls itself on the entries of every path that Stat
\* finds, that is a directory, and that ReadDir lists
RECURSIVE scanDepth(_, _, _)
scanDepth(f, fault, paths) ==
    1 + Max({scanDepth(f, fault, Children(f, path)) :
                path \in {p \in paths : /\ ~StatFails(f, fault, p)
                                        /\ IsDir(f, p)
                                        /\ ~ReadDirFails(fault, p)}})

\* the file system after the scan that met the fault
AfterFault(f, fault) ==
    IF fault.kind = "vanish"
        THEN [n \in Nodes |-> IF n \in Below[fault.path] THEN Absent ELSE f[n]]
        ELSE f

MkEvent(type, path, info) == [Type |-> type, path |-> path, Info |-> info]

\* (variant) the first loop of check without its delete(w.prev, path)
RECURSIVE checkLatestKeep(_, _, _, _)
checkLatestKeep(pm, latest, keys, events) ==
    IF Len(keys) = 0 THEN [events |-> events, pm |-> pm]
    ELSE LET path == Head(keys)
             info == latest[path]
             evs  == IF path \notin DOMAIN pm
                         THEN Append(events, MkEvent(Added, path, info))
                     ELSE IF pm[path].mt # info.mt
                         THEN Append(events, MkEvent(Changed, path, info))
                     ELSE events
         IN  checkLatestKeep(pm, latest, Tail(keys), evs)

\* (variant) a first loop of check whose Changed events carry the FileInfo
\* of Watcher.prev
RECURSIVE checkLatestOld(_, _, _, _)
checkLatestOld(pm, latest, keys, events) ==
    IF Len(keys) = 0 THEN [events |-> events, pm |-> pm]
    ELSE LET path == Head(keys)
             evs  == IF path \notin DOMAIN pm
                         THEN Append(events, MkEvent(Added, path, latest[path]))
                     ELSE IF pm[path].mt # latest[path].mt
                         THEN Append(events, MkEvent(Changed, path, pm[path]))
                     ELSE events
         IN  checkLatestOld(Delete(pm, path), latest, Tail(keys), evs)

\* the first loop of check over the keys of latest
RECURSIVE checkLatest(_, _, _, _)
checkLatest(pm, latest, keys, events) ==
    IF Len(keys) = 0 THEN [events |-> events, pm |-> pm]
    ELSE LET path == Head(keys)
             info == latest[path]
             evs  == IF path \notin DOMAIN pm
                         THEN Append(events, MkEvent(Added, path, info))
                     ELSE IF pm[path].mt # info.mt
                         THEN Append(events, MkEvent(Changed, path, info))
                     ELSE events
         IN  checkLatest(Delete(pm, path), latest, Tail(keys), evs)

\* the second loop of check over what is left of prev
RECURSIVE checkRemoved(_, _, _)
checkRemoved(pm, keys, events) ==
    IF Len(keys) = 0 THEN events
    ELSE checkRemoved(pm, Tail(keys),
                      Append(events, MkEvent(Removed, Head(keys), pm[Head(keys)])))

\* (variant) check that diffs a nil Watcher.prev like an empty one
checkFromEmpty(p, latest, ord) ==
    LET first == checkLatest(p.m, latest, RangeKeys(latest, ord), <<>>)
        evs   == checkRemoved(first.pm, RangeKeys(first.pm, ord), first.events)
    IN  [events |-> evs, prev |-> [nil |-> FALSE, m |-> latest]]

\* (variant) check that takes an empty Watcher.prev for none
checkEmptyAsNil(p, latest, ord) ==
    IF p.nil \/ DOMAIN p.m = {}
        THEN [events |-> <<>>, prev |-> [nil |-> FALSE, m |-> latest]]
        ELSE checkFromEmpty(p, latest, ord)

\* (variant) check without its last assignment, w.prev = latest: the
\* baseline stays what it was
checkNoStore(p, latest, ord) ==
    IF p.nil THEN [events |-> <<>>, prev |-> [nil |-> FALSE, m |-> latest]]
    ELSE [events |-> checkFromEmpty(p, latest, ord).events, prev |-> p]

\* check: the events since the previous scan, and the new Watcher.prev
check(p, latest, ord) ==
    IF p.nil THEN [events |-> <<>>, prev |-> [nil |-> FALSE, m |-> latest]]
    ELSE LET first == checkLatest(p.m, latest, RangeKeys(latest, ord), <<>>)
             evs   == checkRemoved(first.pm, RangeKeys(first.pm, ord), first.events)
         IN  [events |-> evs, prev |-> [nil |-> FALSE, m |-> latest]]

\* the loop of checkBool: "diff" when it returned true, else what is left of prev
RECURSIVE checkBoolLatest(_, _, _)
checkBoolLatest(pm, latest, keys) ==
    IF Len(keys) = 0 THEN [diff |-> FALSE, pm |-> pm]
    ELSE LET path == Head(keys) IN
         IF path \notin DOMAIN pm THEN [diff |-> TRUE, pm |-> pm]
         ELSE IF pm[path].mt # latest[path].mt THEN [diff |-> TRUE, pm |-> pm]
         ELSE checkBoolLatest(Delete(pm, path), latest, Tail(keys))

\* (variant) checkBool without its test of len(w.prev) after the loop
checkBoolNoRemoved(p, latest, ord) ==
    IF p.nil THEN [changed |-> FALSE, prev |-> [nil |-> FALSE, m |-> latest]]
    ELSE LET loop == checkBoolLatest(p.m, latest, RangeKeys(latest, ord)) IN
         [changed |-> loop.diff, prev |-> [nil |-> FALSE, m |-> latest]]

\* (variant) checkBool whose short-circuit returns leave w.prev as the loop
\* left it
checkBoolKeep(p, latest, ord) ==
    IF p.nil THEN [changed |-> FALSE, prev |-> [nil |-> FALSE, m |-> latest]]
    ELSE LET loop == checkBoolLatest(p.m, latest, RangeKeys(latest, ord)) IN
         IF loop.diff THEN [changed |-> TRUE, prev |-> [nil |-> FALSE, m |-> loop.pm]]
         ELSE IF Cardinality(DOMAIN loop.pm) > 0
              THEN [changed |-> TRUE, prev |-> [nil |-> FALSE, m |-> loop.pm]]
         ELSE [changed |-> FALSE, prev |-> [nil |-> FALSE, m |-> latest]]

\* checkBool: whether anything changed, and the new Watcher.prev
checkBool(p, latest, ord) ==
    IF p.nil THEN [changed |-> FALSE, prev |-> [nil |-> FALSE, m |-> latest]]
    ELSE LET loop == checkBoolLatest(p.m, latest, RangeKeys(latest, ord)) IN
         IF loop.diff THEN [changed |-> TRUE, prev |-> [nil |-> FALSE, m |-> latest]]
         ELSE IF Cardinality(DOMAIN loop.pm) > 0
              THEN [changed |-> TRUE, prev |-> [nil |-> FALSE, m |-> latest]]
         ELSE [changed |-> FALSE, prev |-> [nil |-> FALSE, m |-> latest]]

\* the first two steps of scanAndCheck, scanAndCheckBool and NumTargets:
\* scan of what getWatches returned (ws), unless that is an error
resolve(f, fault, ws) ==
    IF ws.err THEN ScanError ELSE scan(f, fault, ws.paths)

\* the faults a cycle can meet: one on a path it stats or reads
Faults(f, ws) == FaultsOn(f, DOMAIN resolve(f, NoFault, ws).m)

\* (variant) scanAndCheck that checks whatever the failed scan returned
scanAndCheckAnyway(infos, p, ord) ==
    LET c == check(p, infos.m, ord) IN
    [err |-> infos.err, events |-> c.events, prev |-> c.prev]

\* (variant) scanAndCheck that drops Watcher.prev when the scan fails
scanAndCheckReseed(infos, p, ord) ==
    IF infos.err THEN [err |-> TRUE, events |-> <<>>, prev |-> NilPrev]
    ELSE LET c == check(p, infos.m, ord) IN
         [err |-> FALSE, events |-> c.events, prev |-> c.prev]

\* scanAndCheck, from the result infos of getWatches and scan on
scanAndCheck(infos, p, ord) ==
    IF infos.err THEN [err |-> TRUE, events |-> <<>>, prev |-> p]
    ELSE LET c == check(p, infos.m, ord) IN
         [err |-> FALSE, events |-> c.events, prev |-> c.prev]

\* scanAndCheckBool, from the result infos of getWatches and scan on
scanAndCheckBool(infos, p, ord) ==
    IF infos.err THEN [err |-> TRUE, changed |-> FALSE, prev |-> p]
    ELSE LET c == checkBool(p, infos.m, ord) IN
         [err |-> FALSE, changed |-> c.changed, prev |-> c.prev]

---------------------------------------------------------------------------
(* The traversal with an ignore set: isIgnored and scanWatches of the       *)
(* revision src/unnamed/part_002, lines 1-263                               *)

\* the loop of isIgnored: accum grows by one segment of split per round
RECURSIVE isIgnoredLoop(_, _, _)
isIgnoredLoop(split, accum, ig) ==
    IF Len(split) = 0 THEN FALSE
    ELSE LET acc == (IF accum # <<>> THEN accum \o <<Sep>> ELSE accum)
                        \o Head(split)
         IN  acc \in ig \/ isIgnoredLoop(Tail(split), acc, ig)

\* isIgnored: ig is the set of the keys of the map ignores
isIgnored(path, ig) == isIgnoredLoop(Split(path), <<>>, ig)

\* a Target
MkTarget(f, path, fullpath) ==
    [Path |-> path, Fullpath |-> fullpath, info |-> InfoOf(f, fullpath)]

\* the result of scanWatches from the results of two parts of its loop
mergeTargets(a, b) ==
    IF a.err \/ b.err THEN ScanError ELSE [err |-> FALSE, m |-> a.m @@ b.m]

RECURSIVE scanWatches(_, _, _, _)

\* one round of the loop of scanWatches
scanWatchesAt(f, fault, path, fullpath, ig) ==
    IF isIgnored(path, ig) THEN [err |-> FALSE, m |-> EmptyMap]
    ELSE IF StatFails(f, fault, fullpath) THEN [err |-> FALSE, m |-> EmptyMap]
    ELSE IF ~IsDir(f, fullpath)
        THEN [err |-> FALSE, m |-> path :> MkTarget(f, path, fullpath)]
    ELSE IF ReadDirFails(fault, fullpath) THEN ScanError
    ELSE scanWatches(f, fault,
                     {Join(path, BaseOf[c]) : c \in Children(f, fullpath)}, ig)

\* the round of the loop of scanWatches for path, with the other rounds
scanWatchesFrom(f, fault, paths, path, ig) ==
    mergeTargets(scanWatchesAt(f, fault, path, Abs(path), ig),
                 scanWatches(f, fault, paths \ {path}, ig))

\* scanWatches: the targets among paths and below them, by the path they
\* were reached by; directories are descended into and are no targets
scanWatches(f, fault, paths, ig) ==
    IF paths = {} THEN [err |-> FALSE, m |-> EmptyMap]
    ELSE scanWatchesFrom(f, fault, paths, CHOOSE p \in paths : TRUE, ig)

---------------------------------------------------------------------------
(* The state machine *)

\* the return value of the last call, with what the call started from:
\* pre is Watcher.prev before it, latest the targets it resolved
NoRet ==
    [op |-> "none", err |-> FALSE, events |-> <<>>, changed |-> FALSE,
     count |-> 0, pre |-> NilPrev, latest |-> EmptyMap, fault |-> NoFault,
     depth |-> 0]

\* the last traversal: the paths and the ignore set it was given, the
\* paths isIgnored held ignored, and the error or the targets it returned
NoTrav ==
    [done |-> FALSE, paths |-> {}, ignores |-> {}, ignored |-> {},
     err |-> FALSE, targets |-> {}]

\* no pattern matched or expanded yet
NoGlob ==
    [pattern |-> <<>>, name |-> <<>>, class |-> [neg |-> FALSE, items |-> <<>>],
     done |-> FALSE, err |-> FALSE, matched |-> FALSE, matches |-> {}]

\* processes are named 1..MaxProcs, in the order they are started
MaxProcs == 3
Pids == 1..MaxProcs

\* no command started yet: prev is nil (0), the channel ready is empty
NoCmd ==
    [prev |-> 0, ready |-> 0, c |-> 0,
     proc |-> [p \in Pids |-> "none"], wait |-> [p \in Pids |-> "none"],
     scan |-> "none", starts |-> 0, failed |-> FALSE, stale |-> FALSE,
     signal |-> "none"]

\* the milliseconds between two ticks of the spinner
tickInterval == 100

\* the scan loop before its first iteration, for a watch interval of 0
NoSched ==
    [watchInterval |-> 0, noSpinner |-> FALSE, nextWatch |-> 0,
     nextTick |-> tickInterval, sleep |-> 0, iterations |-> 0, at |-> 0,
     slept |-> 0, scanned |-> FALSE, ticked |-> FALSE]

\* no call of the watcher yet.  last is the call just before the last
\* one, if it was a scan that succeeded, with whether it reported anything
NoHist ==
    [good |-> NilPrev, failed |-> 0, from |-> NilPrev, after |-> 0,
     last |-> [op |-> "none", differed |-> FALSE]]

\* NewCmd: a CmdWriter that has been given nothing
NoWriter == [buffer |-> <<>>, op |-> "none", pre |-> <<>>, wrote |-> <<>>]

\* main before it has called the watcher
NoMain == [pc |-> "start", numTargets |-> 0, prevTargets |-> 0, executed |-> FALSE]

InitFs == [n \in Nodes |-> IF n = Root THEN [kind |-> "dir", mt |-> 1] ELSE Absent]

Init ==
    /\ fs = InitFs
    /\ \E w \in Setups :
          /\ watches = w.watches
          /\ ignores = w.ignores
          /\ prev = w.prev
    /\ ret = NoRet
    /\ trav = NoTrav
    /\ main = NoMain
    /\ glob = NoGlob
    /\ cmd = NoCmd
    /\ sched = NoSched
    /\ writer = NoWriter
    /\ hist = NoHist

\* what a new entry at n is: a and a/b are directories, the leaves files
Kinds(n) == IF n \in {NodeA, NodeB} THEN {"dir"} ELSE {"file"}

\* the environment creates a file or a directory
Create ==
    \E n \in Nodes \ {Root}, t \in Times :
       \E k \in Kinds(n) :
          /\ ~Exists(fs, n)
          /\ IsDir(fs, ParentOf[n])
          /\ fs' = [fs EXCEPT ![n] = [kind |-> k, mt |-> t]]
          /\ ret' = NoRet
          /\ UNCHANGED <<watches, ignores, prev, trav, main, glob, cmd, sched, writer, hist>>

\* the environment changes the modification time of an entry
Touch ==
    \E n \in Nodes \ {Root}, t \in Times :
       /\ Exists(fs, n)
       /\ t # fs[n].mt
       /\ fs' = [fs EXCEPT ![n].mt = t]
       /\ ret' = NoRet
       /\ UNCHANGED <<watches, ignores, prev, trav, main, glob, cmd, sched, writer, hist>>

\* the environment removes an entry, with everything below it
Remove ==
    \E n \in Nodes \ {Root} :
       /\ Exists(fs, n)
       /\ fs' = [m \in Nodes |-> IF m \in Below[n] THEN Absent ELSE fs[m]]
       /\ ret' = NoRet
       /\ UNCHANGED <<watches, ignores, prev, trav, main, glob, cmd, sched, writer, hist>>

\* the orders in which the runtime may enumerate the keys of the two maps
\* of a check; a failed scan ranges over no map
RangeOrders(p, infos) ==
    IF infos.err THEN {<<>>} ELSE OrdersOf[DOMAIN p.m \cup DOMAIN infos.m]

\* ScanForEvents, once scanAndCheck has returned r
ScanForEventsChecked(fault, latest, r) ==
    /\ prev' = r.prev
    /\ ret' = [NoRet EXCEPT !.op = "ScanForEvents", !.err = r.err,
                            !.events = r.events, !.pre = prev,
                            !.latest = latest.m, !.fault = fault]
    /\ fs' = AfterFault(fs, fault)
    /\ UNCHANGED <<watches, ignores, trav, main, glob, cmd, sched, writer, hist>>

\* ScanForEvents, once the scan that met fault has returned latest
ScanForEventsGiven(fault, latest) ==
    \E ord \in RangeOrders(prev, latest) :
       ScanForEventsChecked(fault, latest, scanAndCheck(latest, prev, ord))

\* ScanForEvents, once getWatches has returned ws
ScanForEventsOn(ws) ==
    \E fault \in Faults(fs, ws) : ScanForEventsGiven(fault, resolve(fs, fault, ws))

ScanForEvents == ScanForEventsOn(getWatches(fs, watches, ignores))

\* ScanForChange, once scanAndCheckBool has returned r
ScanForChangeChecked(fault, latest, r) ==
    /\ prev' = r.prev
    /\ ret' = [NoRet EXCEPT !.op = "ScanForChange", !.err = r.err,
                            !.changed = r.changed, !.pre = prev,
                            !.latest = latest.m, !.fault = fault]
    /\ fs' = AfterFault(fs, fault)
    /\ UNCHANGED <<watches, ignores, trav, main, glob, cmd, sched, writer, hist>>

\* ScanForChange, once the scan that met fault has returned latest
ScanForChangeGiven(fault, latest) ==
    \E ord \in RangeOrders(prev, latest) :
       ScanForChangeChecked(fault, latest, scanAndCheckBool(latest, prev, ord))

\* ScanForChange, once getWatches has returned ws
ScanForChangeOn(ws) ==
    \E fault \in Faults(fs, ws) : ScanForChangeGiven(fault, resolve(fs, fault, ws))

ScanForChange == ScanForChangeOn(getWatches(fs, watches, ignores))

\* (variant) NumTargets that keeps the targets it counted as Watcher.prev
NumTargetsSeeding(fault, latest) ==
    /\ ret' = [NoRet EXCEPT !.op = "NumTargets", !.err = latest.err,
                            !.count = Cardinality(DOMAIN latest.m),
                            !.pre = prev, !.latest = latest.m, !.fault = fault]
    /\ prev' = [nil |-> FALSE, m |-> latest.m]
    /\ fs' = AfterFault(fs, fault)
    /\ UNCHANGED <<watches, ignores, trav, main, glob, cmd, sched, writer, hist>>

\* NumTargets, once the scan that met fault has returned latest: the
\* targets are counted, and not checked
NumTargetsGiven(fault, latest) ==
    /\ ret' = [NoRet EXCEPT !.op = "NumTargets", !.err = latest.err,
                            !.count = Cardinality(DOMAIN latest.m),
                            !.pre = prev, !.latest = latest.m, !.fault = fault]
    /\ fs' = AfterFault(fs, fault)
    /\ UNCHANGED <<watches, ignores, prev, trav, main, glob, cmd, sched, writer, hist>>

\* NumTargets, once getWatches has returned ws
NumTargetsOn(ws) ==
    \E fault \in Faults(fs, ws) : NumTargetsGiven(fault, resolve(fs, fault, ws))

NumTargets == NumTargetsOn(getWatches(fs, watches, ignores))

Next ==
    \/ Create
    \/ Touch
    \/ Remove
    \/ ScanForEvents
    \/ ScanForChange
    \/ NumTargets

Spec == Init /\ [][Next]_vars

---------------------------------------------------------------------------
(* The traversal alone: scanWatches on paths and ignore sets as the glob    *)
(* expansion hands them over, spelled relative to the working directory or  *)
(* absolute, as the arguments of -watch and -ignore were.                   *)

MaxPaths == 2
MaxIgnores == 2

\* the spellings of the nodes
Spellings == {ArgA, ArgAB, ArgABC, ArgE, NodeA, NodeB, NodeC, NodeE}

TravFs ==
    [n \in Nodes |-> IF n \in {Root, NodeA, NodeB} THEN [kind |-> "dir", mt |-> 1]
                     ELSE [kind |-> "file", mt |-> 1]]

\* the paths and the ignore set of one traversal: spellings of what
\* exists (scanIgnores keeps no other ignore)
InitIgnore ==
    /\ fs = TravFs
    /\ watches = <<>>
    /\ ignores = <<>>
    /\ prev = NilPrev
    /\ ret = NoRet
    /\ main = NoMain
    /\ glob = NoGlob
    /\ cmd = NoCmd
    /\ sched = NoSched
    /\ writer = NoWriter
    /\ hist = NoHist
    /\ \E paths \in {S \in SUBSET Spellings : Cardinality(S) <= MaxPaths},
          ig \in {S \in SUBSET Spellings : Cardinality(S) <= MaxIgnores} :
          trav = [NoTrav EXCEPT !.paths = paths, !.ignores = ig]

\* scanWatches(paths, ignores), once it has returned r under fault
ScanWatchesGiven(fault, r) ==
    /\ trav' = [trav EXCEPT !.done = TRUE,
                            !.ignored = {p \in trav.paths : isIgnored(p, trav.ignores)},
                            !.err = r.err,
                            !.targets = DOMAIN r.m]
    /\ fs' = AfterFault(fs, fault)
    /\ UNCHANGED <<watches, ignores, prev, ret, main, glob, cmd, sched, writer, hist>>

\* scanWatches
ScanWatches ==
    /\ ~trav.done
    /\ \E fault \in FaultsOn(fs, {Abs(p) : p \in trav.paths}) :
          ScanWatchesGiven(fault, scanWatches(fs, fault, trav.paths, trav.ignores))

NextIgnore == ScanWatches

SpecIgnore == InitIgnore /\ [][NextIgnore]_vars

\* C7: the traversal excludes a path exactly when the path or one of its
\* ancestor directories, by whole segments, is in the ignore set; no
\* target it returns is in the ignore set or below a member of it.
C7_IgnoredIffAncestor ==
    trav.done =>
        /\ \A p \in trav.paths :
              (p \in trav.ignored)
                  <=> (\E g \in trav.ignores : g = p \/ IsAncestor(g, p))
        /\ \A t \in trav.targets :
              ~\E g \in trav.ignores : g = t \/ IsAncestor(g, t)

---------------------------------------------------------------------------
(* Properties of the watcher under Spec.  ret holds what the last call      *)
(* returned, ret.pre the Watcher.prev it started from and ret.latest the    *)
(* targets it resolved; a step of the environment resets ret.               *)

\* C1: the first successful ScanForEvents of a new Watcher returns no
\* events, whatever targets it resolved, and Watcher.prev is then the
\* resolved set (and no longer nil).
C1_FirstScanSeeds ==
    (ret.op = "ScanForEvents" /\ ~ret.err /\ ret.pre.nil)
        => (ret.events = <<>> /\ ~prev.nil /\ prev.m = ret.latest)

\* a first ScanForEvents that resolved several targets
C1_Witness ==
    /\ ret.op = "ScanForEvents" /\ ~ret.err /\ ret.pre.nil
    /\ Cardinality(DOMAIN ret.latest) >= 2

\* C2: from a seeded baseline B and a resolved set L, ScanForEvents returns
\* exactly one Added for each path of L not in B, one Changed for each path
\* of both whose modification times differ, one Removed for each path of B
\* not in L, and nothing else.
C2_EventsPartition ==
    (ret.op = "ScanForEvents" /\ ~ret.err /\ ~ret.pre.nil) =>
        LET B == ret.pre.m
            L == ret.latest
            expected ==
                {MkEvent(Added, p, L[p]) : p \in DOMAIN L \ DOMAIN B}
                \cup {MkEvent(Changed, p, L[p]) :
                         p \in {q \in DOMAIN L \cap DOMAIN B : B[q].mt # L[q].mt}}
                \cup {MkEvent(Removed, p, B[p]) : p \in DOMAIN B \ DOMAIN L}
        IN  /\ {ret.events[i] : i \in 1..Len(ret.events)} = expected
            /\ Len(ret.events) = Cardinality(expected)

\* a ScanForEvents that returned an Added, a Changed and a Removed
C2_Witness ==
    /\ ret.op = "ScanForEvents" /\ ~ret.err /\ ~ret.pre.nil
    /\ \A t \in {Added, Changed, Removed} :
          \E i \in 1..Len(ret.events) : ret.events[i].Type = t

\* C3: ScanForChange returns true exactly when check, from the same
\* Watcher.prev and the same resolved set, returns some event, whatever the
\* order of the map ranges.
C3_ChangeIffEvents ==
    (ret.op = "ScanForChange" /\ ~ret.err) =>
        \A ord \in OrdersOf[DOMAIN ret.pre.m \cup DOMAIN ret.latest] :
            ret.changed = (check(ret.pre, ret.latest, ord).events # <<>>)

\* a ScanForChange that returned true only because a path was removed
C3_Witness ==
    /\ ret.op = "ScanForChange" /\ ~ret.err /\ ~ret.pre.nil /\ ret.changed
    /\ DOMAIN ret.latest # {}
    /\ DOMAIN ret.latest \subseteq DOMAIN ret.pre.m
    /\ DOMAIN ret.latest # DOMAIN ret.pre.m
    /\ \A p \in DOMAIN ret.latest : ret.latest[p].mt = ret.pre.m[p].mt

\* C4: after every successful ScanForEvents or ScanForChange, Watcher.prev
\* is exactly the set resolved by that call, also when checkBool returned
\* from inside its loop.
C4_BaselineIsLatest ==
    (ret.op \in {"ScanForEvents", "ScanForChange"} /\ ~ret.err)
        => (~prev.nil /\ prev.m = ret.latest)

\* a ScanForChange that returned true while paths of the old baseline were
\* gone and new ones had come
C4_Witness ==
    /\ ret.op = "ScanForChange" /\ ~ret.err /\ ~ret.pre.nil /\ ret.changed
    /\ DOMAIN ret.pre.m \ DOMAIN ret.latest # {}
    /\ DOMAIN ret.latest \ DOMAIN ret.pre.m # {}
    /\ DOMAIN ret.latest \cap DOMAIN ret.pre.m # {}

\* C5: a call whose scan fails (glob error, Stat error, ReadDir error)
\* returns the error with no events and false, and leaves Watcher.prev as
\* it was, nil included.
C5_FailureKeepsBaseline ==
    ret.err => (ret.events = <<>> /\ ~ret.changed /\ prev = ret.pre)

\* a ScanForEvents that failed on ReadDir while a baseline was retained
C5_Witness ==
    /\ ret.op = "ScanForEvents" /\ ret.err /\ ret.fault.kind = "readdir"
    /\ ~ret.pre.nil /\ DOMAIN ret.pre.m # {}

\* C6: no target of a successful scan is a path an ignore pattern expands
\* to, or lies below a directory an ignore pattern expands to, also when
\* the scan reached it through a watched directory above it.
C6_NoIgnoredTarget ==
    (ret.op # "none" /\ ~ret.err) =>
        \A p \in DOMAIN ret.latest :
            \A g \in expandArgs(fs, ignores).m : p \notin Below[g]

\* C8: when a path that was expanded or listed is gone by the time it is
\* stat'ed, the call succeeds, the path is not among the targets, and a
\* ScanForEvents that had it in its baseline returns a Removed for it.
C8_VanishedIsSkipped ==
    (ret.op # "none" /\ ret.fault.kind = "vanish") =>
        /\ ~ret.err
        /\ ret.fault.path \notin DOMAIN ret.latest
        /\ (ret.op = "ScanForEvents" /\ ~ret.pre.nil
               /\ ret.fault.path \in DOMAIN ret.pre.m)
              => \E i \in 1..Len(ret.events) :
                    /\ ret.events[i].Type = Removed
                    /\ ret.events[i].path = ret.fault.path

C10_NumTargetsKeepsBaseline ==
    ret.op = "NumTargets" => prev = ret.pre

\* a NumTargets that counted targets other than the retained baseline
C10_Witness ==
    /\ ret.op = "NumTargets" /\ ~ret.err /\ ret.count >= 2
    /\ ~prev.nil /\ prev.m # ret.latest

---------------------------------------------------------------------------
(* main: the initial target count, then the scan loop that keeps            *)
(* numTargets up to date from the events of each ScanForEvents.             *)

\* the number of events of one type
CountEvents(events, type) ==
    Cardinality({i \in 1..Len(events) : events[i].Type = type})

\* the loop over the events of one scan: numTargets++ per Added event and
\* numTargets-- per Removed event.  numTargets is a uint64 and is held by
\* its residue modulo 2^64 nearest zero (-1 stands for 2^64 - 1), which
\* both operations keep exact.
trackTargets(n, events) ==
    n + CountEvents(events, Added) - CountEvents(events, Removed)

\* the watchers main is run with
MainSetups ==
    { Ignore(Watch(Watch(New, ArgABC), ArgE), ArgE),
      Ignore(Watch(New, ArgE), ArgSlash),
      Watch(New, ArgE) }

InitMain ==
    /\ fs = InitFs
    /\ \E w \in MainSetups :
          /\ watches = w.watches
          /\ ignores = w.ignores
          /\ prev = w.prev
    /\ ret = NoRet
    /\ trav = NoTrav
    /\ main = NoMain
    /\ glob = NoGlob
    /\ cmd = NoCmd
    /\ sched = NoSched
    /\ writer = NoWriter
    /\ hist = NoHist

\* the initial NumTargets, once the scan that met fault has returned
\* latest: main exits on an error, and else keeps the count
MainNumTargetsGiven(fault, latest) ==
    /\ ret' = [NoRet EXCEPT !.op = "NumTargets", !.err = latest.err,
                            !.count = Cardinality(DOMAIN latest.m),
                            !.pre = prev, !.latest = latest.m, !.fault = fault]
    /\ main' = IF latest.err
               THEN [main EXCEPT !.pc = "exit"]
               ELSE [main EXCEPT !.pc = "loop",
                                 !.numTargets = Cardinality(DOMAIN latest.m)]
    /\ fs' = AfterFault(fs, fault)
    /\ UNCHANGED <<watches, ignores, prev, trav, glob, cmd, sched, writer, hist>>

MainNumTargetsOn(ws) ==
    \E fault \in Faults(fs, ws) : MainNumTargetsGiven(fault, resolve(fs, fault, ws))

MainNumTargets ==
    /\ main.pc = "start"
    /\ MainNumTargetsOn(getWatches(fs, watches, ignores))

\* a watch iteration that leaves the loop when the scan fails
MainScanOrExit(fault, latest) ==
    \E ord \in RangeOrders(prev, latest) :
       LET r == scanAndCheck(latest, prev, ord) IN
       /\ prev' = r.prev
       /\ ret' = [NoRet EXCEPT !.op = "ScanForEvents", !.err = r.err,
                               !.events = r.events, !.pre = prev,
                               !.latest = latest.m, !.fault = fault]
       /\ main' = [main EXCEPT !.pc = IF r.err THEN "exit" ELSE "loop",
                               !.prevTargets = main.numTargets,
                               !.numTargets = trackTargets(@, r.events),
                               !.executed = (Len(r.events) > 0)]
       /\ fs' = AfterFault(fs, fault)
       /\ UNCHANGED <<watches, ignores, trav, glob, cmd, sched, writer, hist>>

\* one watch iteration of the loop, once the scan that met fault has
\* returned latest: the events are logged and counted, and the command is
\* executed if there is any
MainScanGiven(fault, latest) ==
    \E ord \in RangeOrders(prev, latest) :
       LET r == scanAndCheck(latest, prev, ord) IN
       /\ prev' = r.prev
       /\ ret' = [NoRet EXCEPT !.op = "ScanForEvents", !.err = r.err,
                               !.events = r.events, !.pre = prev,
                               !.latest = latest.m, !.fault = fault]
       /\ main' = [main EXCEPT !.prevTargets = main.numTargets,
                               !.numTargets = trackTargets(@, r.events),
                               !.executed = (Len(r.events) > 0)]
       /\ fs' = AfterFault(fs, fault)
       /\ UNCHANGED <<watches, ignores, trav, glob, cmd, sched, writer, hist>>

MainScanOn(ws) ==
    \E fault \in Faults(fs, ws) : MainScanGiven(fault, resolve(fs, fault, ws))

MainScan ==
    /\ main.pc = "loop"
    /\ MainScanOn(getWatches(fs, watches, ignores))

NextMain ==
    \/ Create
    \/ Touch
    \/ Remove
    \/ MainNumTargets
    \/ MainScan

SpecMain == InitMain /\ [][NextMain]_vars

\* C11: in main's loop, after every scan that succeeded, numTargets is the
\* number of targets of Watcher.prev, whatever happened to the file system,
\* also between the initial NumTargets and the first ScanForEvents.
C11_CountTracksBaseline ==
    (main.pc = "loop" /\ ret.op = "ScanForEvents" /\ ~ret.err)
        => main.numTargets = Cardinality(DOMAIN prev.m)

\* C23: a scan that fails in the loop does not end it: no event is
\* returned, no command is executed in that iteration, numTargets is what
\* it was before the scan, and main is still in the loop, where the next
\* iteration scans again.
C23_FailedScanKeepsLoop ==
    (ret.op = "ScanForEvents" /\ ret.err) =>
        /\ main.pc = "loop"
        /\ ret.events = <<>>
        /\ ~main.executed
        /\ main.numTargets = main.prevTargets

C23_Witness ==
    /\ ret.op = "ScanForEvents"
    /\ ret.err
    /\ ret.fault.kind # "none"
    /\ main.numTargets > 0
    /\ main.pc = "loop"

\* C34: numTargets never wraps around: after the events of any scan it is
\* a count, that is, its residue is not below zero (no Removed event took
\* it from 0 to 2^64 - 1).
C34_NumTargetsNeverWraps == main.numTargets >= 0

---------------------------------------------------------------------------
(* Properties of the resolved set and of the events of one scan *)

\* C12: the targets of a traversal are one per file: two paths of the
\* result that have the same absolute path are the same target, however
\* the file was spelled and whether it was reached by itself or through a
\* watched directory above it.
C12_OneTargetPerFile ==
    trav.done =>
        \A t1 \in trav.targets, t2 \in trav.targets :
            Abs(t1) = Abs(t2) => t1 = t2

\* C13: every Removed event of a ScanForEvents carries the FileInfo that
\* Watcher.prev held for its path before the call, and every Added and
\* Changed event the FileInfo of the set the call resolved.
C13_EventCarriesInfo ==
    (ret.op = "ScanForEvents" /\ ~ret.err) =>
        \A i \in 1..Len(ret.events) :
            LET e == ret.events[i] IN
            IF e.Type = Removed
                THEN e.path \in DOMAIN ret.pre.m /\ e.Info = ret.pre.m[e.path]
                ELSE e.path \in DOMAIN ret.latest /\ e.Info = ret.latest[e.path]

\* a ScanForEvents that returned a Removed event for a path last seen with
\* the later modification time, and a Changed event
C13_Witness ==
    /\ ret.op = "ScanForEvents" /\ ~ret.err
    /\ \E i \in 1..Len(ret.events) :
          ret.events[i].Type = Removed /\ ret.events[i].Info.mt = MaxTime
    /\ \E i \in 1..Len(ret.events) :
          /\ ret.events[i].Type = Changed
          /\ ret.events[i].Info # ret.pre.m[ret.events[i].path]

\* C14: no path occurs in two events of one ScanForEvents: a path is not
\* reported twice, nor with two types, in one cycle.
C14_OneEventPerPath ==
    (ret.op = "ScanForEvents" /\ ~ret.err) =>
        \A i \in 1..Len(ret.events), j \in 1..Len(ret.events) :
            ret.events[i].path = ret.events[j].path => i = j

\* a ScanForEvents that returned three events or more, two of one type
C14_Witness ==
    /\ ret.op = "ScanForEvents" /\ ~ret.err
    /\ Len(ret.events) >= 3
    /\ \E i \in 1..Len(ret.events), j \in 1..Len(ret.events) :
          i # j /\ ret.events[i].Type = ret.events[j].Type

\* C15: when a path handed to the traversal is a directory, the targets
\* hold that directory and every entry below it, files and directories
\* alike, at every depth, but for what is ignored.
C15_DirectoryAndBelow ==
    (trav.done /\ ~trav.err) =>
        \A p \in trav.paths :
            IsDir(fs, Abs(p)) =>
                \A n \in {x \in Below[Abs(p)] : Exists(fs, x)} :
                    \/ \E g \in trav.ignores :
                          Abs(g) = n \/ IsAncestor(Abs(g), n)
                    \/ \E t \in trav.targets : Abs(t) = n

\* C16: a first ScanForEvents that resolves no target leaves an empty
\* Watcher.prev that is not nil, and a ScanForEvents that starts from an
\* empty Watcher.prev reports every path it resolves as Added: what is
\* created after a first scan that found nothing is detected by the next.
C16_EmptySeedDetectsAdded ==
    (ret.op = "ScanForEvents" /\ ~ret.err) =>
        /\ (ret.pre.nil /\ DOMAIN ret.latest = {})
              => (~prev.nil /\ DOMAIN prev.m = {})
        /\ (~ret.pre.nil /\ DOMAIN ret.pre.m = {})
              => \A p \in DOMAIN ret.latest :
                    \E i \in 1..Len(ret.events) :
                        ret.events[i] = MkEvent(Added, p, ret.latest[p])

\* a ScanForEvents that started from an empty Watcher.prev and resolved a
\* directory and a file
C16_Witness ==
    /\ ret.op = "ScanForEvents" /\ ~ret.err
    /\ ~ret.pre.nil /\ DOMAIN ret.pre.m = {}
    /\ \E p \in DOMAIN ret.latest : ret.latest[p].dir
    /\ \E p \in DOMAIN ret.latest : ~ret.latest[p].dir

---------------------------------------------------------------------------
(* The expansion of one pattern alone: expandArgs on one argument, over     *)
(* the file systems of every shape.                                         *)

PatStarStarC  == <<"*", "*", "/", "c">>
PatAStarStarB == <<"a", "/", "*", "*", "/", "b">>
PatAStarStarC == <<"a", "/", "*", "*", "/", "c">>
PatBraceAE    == <<"{", "a", ",", "e", "}">>
PatABraceBE   == <<"a", "/", "{", "b", ",", "e", "}">>
PatStar       == <<"*">>
PatStarB      == <<"*", "/", "b">>

\* the patterns expanded
GlobPatterns ==
    {PatStarStarC, PatAStarStarB, PatAStarStarC, PatBraceAE, PatABraceBE,
     PatStar, PatStarB, ArgAStar, ArgABC, ArgOpen}

InitGlob ==
    /\ \E sh \in Shapes :
          fs = [n \in Nodes |-> IF sh[n].kind = "none" THEN Absent
                                ELSE [kind |-> sh[n].kind, mt |-> 1]]
    /\ watches = <<>>
    /\ ignores = <<>>
    /\ prev = NilPrev
    /\ ret = NoRet
    /\ trav = NoTrav
    /\ main = NoMain
    /\ cmd = NoCmd
    /\ sched = NoSched
    /\ writer = NoWriter
    /\ hist = NoHist
    /\ \E pattern \in GlobPatterns : glob = [NoGlob EXCEPT !.pattern = pattern]

\* the round of the loop of expandArgs for the pattern, once it has
\* returned r
GlobExpandGiven(r) ==
    /\ glob' = [glob EXCEPT !.done = TRUE, !.err = r.err, !.matches = r.m]
    /\ UNCHANGED <<fs, watches, ignores, prev, ret, trav, main, cmd, sched, writer, hist>>

GlobExpand ==
    /\ ~glob.done
    /\ GlobExpandGiven(expandArg(fs, glob.pattern))

NextGlob == GlobExpand

SpecGlob == InitGlob /\ [][NextGlob]_vars

\* C17: ** as a whole segment of a watch pattern stands for zero or more
\* whole segments: **/c expands to every existing path whose last segment
\* is c, at any depth, and to nothing else, and a/**/b expands to a/b.
C17_DoubleStarDescends ==
    glob.done =>
        /\ glob.pattern = PatStarStarC =>
              glob.matches = {n \in Nodes \ {Root} : Exists(fs, n) /\ BaseOf[n] = <<"c">>}
        /\ (glob.pattern = PatAStarStarB /\ Exists(fs, NodeB)) =>
              NodeB \in glob.matches

\* C19: a pattern with a brace alternation expands to the union of the
\* expansions of the pattern with each alternative in its place: {a,e} to
\* what a and e expand to, and a/{b,e} to what a/b and a/e expand to.
C19_BraceIsUnion ==
    glob.done =>
        /\ glob.pattern = PatBraceAE =>
              /\ ~glob.err
              /\ glob.matches = expandArg(fs, ArgA).m \cup expandArg(fs, ArgE).m
        /\ glob.pattern = PatABraceBE =>
              /\ ~glob.err
              /\ glob.matches = expandArg(fs, ArgAB).m
                                   \cup expandArg(fs, <<"a", "/", "e">>).m

---------------------------------------------------------------------------
(* The matcher alone: filepath.Match, as filepath.Glob applies it, on       *)
(* patterns and names drawn from bounded sets.                              *)

MaxPatternLen == 3
MaxNameLen == 3

\* the strings over chars of at least one and at most n characters
Strings(chars, n) == UNION {[1..k -> chars] : k \in 1..n}

\* patterns of literals, wildcards and separators, and the names they are
\* matched against
WildInputs ==
    Strings({"a", "b", "*", "?", Sep}, MaxPatternLen)
        \X Strings({"a", "b", Sep}, MaxNameLen)

MaxItems == 2

\* the members a class is written with: a character, an escaped ] or -,
\* or a range
ClassChars == {"a", "b", "c"}

ClassItems ==
    {[kind |-> "one", lo |-> ch, hi |-> ch, esc |-> FALSE] : ch \in ClassChars}
    \cup {[kind |-> "one", lo |-> ch, hi |-> ch, esc |-> TRUE] : ch \in {"]", "-"}}
    \cup {[kind |-> "range", lo |-> lo, hi |-> hi, esc |-> FALSE] :
             lo \in ClassChars, hi \in ClassChars}

\* the classes of at most MaxItems members, negated or not
Classes ==
    {[neg |-> neg, items |-> items] :
        neg \in BOOLEAN, items \in UNION {[1..k -> ClassItems] : k \in 1..MaxItems}}

\* a class as it is written in a pattern
RenderItem(item) ==
    IF item.kind = "range" THEN <<item.lo, "-", item.hi>>
    ELSE IF item.esc THEN <<"\\", item.lo>>
    ELSE <<item.lo>>

RECURSIVE RenderItems(_)
RenderItems(items) ==
    IF Len(items) = 0 THEN <<>>
    ELSE RenderItem(Head(items)) \o RenderItems(Tail(items))

RenderClass(class) ==
    <<"[">> \o (IF class.neg THEN <<"^">> ELSE <<>>)
            \o RenderItems(class.items) \o <<"]">>

\* classes with an unescaped - at their start or end, an unescaped
\* leading ], or a doubled range
BadClasses ==
    { <<"[", "-", "]">>, <<"[", "a", "-", "]">>, <<"[", "-", "a", "]">>,
      <<"[", "]", "a", "]">>, <<"[", "a", "-", "b", "-", "c", "]">>,
      <<"[", "^", "-", "a", "]">>, <<"[", "^", "]", "a", "]">> }

\* the characters a class is matched against
ClassNames == {<<ch>> : ch \in {"a", "b", "c", "e", "-", "]", "^", "\\"}}

InitMatch ==
    /\ fs = InitFs
    /\ watches = <<>>
    /\ ignores = <<>>
    /\ prev = NilPrev
    /\ ret = NoRet
    /\ trav = NoTrav
    /\ main = NoMain
    /\ cmd = NoCmd
    /\ sched = NoSched
    /\ writer = NoWriter
    /\ hist = NoHist
    /\ \/ \E in \in WildInputs :
             glob = [NoGlob EXCEPT !.pattern = in[1], !.name = in[2]]
       \/ \E cl \in Classes, s \in ClassNames :
             glob = [NoGlob EXCEPT !.pattern = RenderClass(cl), !.name = s,
                                   !.class = cl]
       \/ \E p \in BadClasses, s \in ClassNames :
             glob = [NoGlob EXCEPT !.pattern = p, !.name = s]

\* filepath.Match(pattern, name): ErrBadPattern, or whether name matches
MatchName ==
    /\ ~glob.done
    /\ glob' = [glob EXCEPT !.done = TRUE,
                            !.err = BadPattern(glob.pattern),
                            !.matched = /\ ~BadPattern(glob.pattern)
                                        /\ Match(glob.pattern, glob.name)]
    /\ UNCHANGED <<fs, watches, ignores, prev, ret, trav, main, cmd, sched, writer, hist>>

NextMatch == MatchName

SpecMatch == InitMatch /\ [][NextMatch]_vars

\* name is cut into one piece per character of pattern, c[i] being where
\* the piece of pattern[i] ends: a star has a run, possibly empty, of
\* characters that are no separators, a question mark one character that
\* is no separator, and any other character itself
CutMatches(pattern, name, c) ==
    /\ c[Len(pattern)] = Len(name)
    /\ \A i \in 1..Len(pattern) :
          LET from == IF i = 1 THEN 0 ELSE c[i - 1] IN
          IF pattern[i] = "*"
              THEN from <= c[i] /\ \A j \in (from + 1)..c[i] : name[j] # Sep
          ELSE /\ c[i] = from + 1
               /\ c[i] <= Len(name)
               /\ IF pattern[i] = "?" THEN name[c[i]] # Sep
                  ELSE name[c[i]] = pattern[i]

\* C18: * matches any run, possibly empty, of characters that are no
\* separators and ? matches exactly one such character, so that a name
\* matches a pattern of literals, wildcards and separators exactly when it
\* can be cut into such pieces: no wildcard ever matches the separator.
C18_WildcardsStayInSegment ==
    (glob.done /\ <<glob.pattern, glob.name>> \in WildInputs) =>
        /\ ~glob.err
        /\ glob.matched <=>
              \E c \in [1..Len(glob.pattern) -> 0..Len(glob.name)] :
                  CutMatches(glob.pattern, glob.name, c)

\* a pattern with a star and a question mark that matched a name with a
\* separator
C18_Witness ==
    /\ glob.done /\ glob.matched
    /\ \E i \in 1..Len(glob.pattern) : glob.pattern[i] = "*"
    /\ \E i \in 1..Len(glob.pattern) : glob.pattern[i] = "?"
    /\ \E j \in 1..Len(glob.name) : glob.name[j] = Sep

\* c is a member of the class: it is one of its characters, or lies in one
\* of its ranges, endpoints included
IsMember(class, c) ==
    \E i \in 1..Len(class.items) :
        Ord(class.items[i].lo) <= Ord(c) /\ Ord(c) <= Ord(class.items[i].hi)

\* C20: a character class matches one character by membership: a range
\* holds its endpoints and what lies between them, a leading ^ negates,
\* ] and - are members when they are escaped; a class with an unescaped -
\* at its start or end, an unescaped leading ], or a doubled range matches
\* no character.
C20_ClassByMembership ==
    glob.done =>
        /\ glob.class.items # <<>> =>
              /\ ~glob.err
              /\ glob.matched = (IsMember(glob.class, glob.name[1]) # glob.class.neg)
        /\ glob.pattern \in BadClasses => ~glob.matched

\* a negated class with a range that matched a character, and so did not
\* hold it
C20_Witness ==
    /\ glob.done /\ glob.matched
    /\ glob.class.neg
    /\ \E i \in 1..Len(glob.class.items) :
          glob.class.items[i].kind = "range" /\ glob.class.items[i].lo # glob.class.items[i].hi
    /\ \E i \in 1..Len(glob.class.items) : glob.class.items[i].esc

\* ------------------------------------------------------------------------
\* The command (main.go, the version with the channel ready): main's
\* calls of executeCmd, one step per statement that another goroutine can
\* observe, the processes it starts and the goroutines that wait on them.
\* The watcher is left out: a scan is one of the three things
\* ScanForEvents returns to the loop.

ScanResults == {"events", "quiet", "error"}

\* the processes started and not yet reaped
Alive == {p \in Pids : cmd.proc[p] \in {"running", "exited"}}

\* the name of the next process
NextPid == CHOOSE p \in Pids : cmd.proc[p] = "none" /\ \A q \in 1..(p - 1) : cmd.proc[q] # "none"

\* a loop that calls executeCmd whatever the scan returned
afterScanAlways(result) == "kill"

\* if len(events) > 0 { executeCmd(cmd) }: where the loop goes after a scan
afterScan(result) == IF result = "events" THEN "kill" ELSE "sleep"

\* a receive that does not wait for the token
receivableAlways(n) == TRUE

\* <-ready can proceed: the channel holds the token
receivable(n) == n > 0

InitCmd ==
    /\ fs = InitFs
    /\ watches = <<>>
    /\ ignores = <<>>
    /\ prev = NilPrev
    /\ ret = NoRet
    /\ trav = NoTrav
    /\ glob = NoGlob
    /\ main = [NoMain EXCEPT !.pc = "boot"]
    /\ cmd = NoCmd
    /\ sched = NoSched
    /\ writer = NoWriter
    /\ hist = NoHist

\* ready <- true, then the first executeCmd is entered
Boot ==
    /\ main.pc = "boot"
    /\ main' = [main EXCEPT !.pc = "kill"]
    /\ cmd' = [cmd EXCEPT !.ready = 1]
    /\ UNCHANGED <<fs, watches, ignores, prev, ret, trav, glob, sched, writer, hist>>

\* killCmd, called by executeCmd: SIGKILL to the group of prev, if prev is
\* not nil; stale records that the process had been reaped already
killCmd ==
    /\ main.pc = "kill"
    /\ main' = [main EXCEPT !.pc = "await"]
    /\ cmd' = IF cmd.prev = 0 THEN cmd
              ELSE [cmd EXCEPT !.proc[cmd.prev] = IF @ = "running" THEN "exited" ELSE @,
                               !.stale = @ \/ cmd.proc[cmd.prev] = "reaped"]
    /\ UNCHANGED <<fs, watches, ignores, prev, ret, trav, glob, sched, writer, hist>>

\* <-ready
AwaitReady ==
    /\ main.pc = "await"
    /\ receivable(cmd.ready)
    /\ main' = [main EXCEPT !.pc = "exec"]
    /\ cmd' = [cmd EXCEPT !.ready = 0]
    /\ UNCHANGED <<fs, watches, ignores, prev, ret, trav, glob, sched, writer, hist>>

\* c.Start(): the process runs and a goroutine waits on it, or Start fails
\* and executeCmd returns the error
Start ==
    /\ main.pc = "exec"
    /\ \E p \in Pids : cmd.proc[p] = "none"
    /\ \E ok \in BOOLEAN :
          IF ok
              THEN /\ main' = [main EXCEPT !.pc = "store"]
                   /\ cmd' = [cmd EXCEPT !.c = NextPid,
                                         !.proc[NextPid] = "running",
                                         !.wait[NextPid] = "wait",
                                         !.starts = @ + 1]
          ELSE /\ main' = [main EXCEPT !.pc = "sleep"]
               /\ cmd' = [cmd EXCEPT !.failed = TRUE]
    /\ UNCHANGED <<fs, watches, ignores, prev, ret, trav, glob, sched, writer, hist>>

\* prev = c, and executeCmd returns
StorePrev ==
    /\ main.pc = "store"
    /\ main' = [main EXCEPT !.pc = "sleep"]
    /\ cmd' = [cmd EXCEPT !.prev = cmd.c]
    /\ UNCHANGED <<fs, watches, ignores, prev, ret, trav, glob, sched, writer, hist>>

\* an iteration of the loop up to its call of executeCmd
LoopScan ==
    /\ main.pc = "sleep"
    /\ \E result \in ScanResults :
          /\ main' = [main EXCEPT !.pc = afterScan(result)]
          /\ cmd' = [cmd EXCEPT !.scan = result, !.starts = 0, !.failed = FALSE]
    /\ UNCHANGED <<fs, watches, ignores, prev, ret, trav, glob, sched, writer, hist>>

\* the command ends by itself, with any status
ProcExit ==
    /\ \E p \in Pids :
          /\ cmd.proc[p] = "running"
          /\ cmd' = [cmd EXCEPT !.proc[p] = "exited"]
    /\ UNCHANGED <<fs, watches, ignores, prev, ret, trav, main, glob, sched, writer, hist>>

\* c.Process.Wait() returns in the goroutine of p
WaitReturn ==
    /\ \E p \in Pids :
          /\ cmd.wait[p] = "wait"
          /\ cmd.proc[p] = "exited"
          /\ cmd' = [cmd EXCEPT !.proc[p] = "reaped", !.wait[p] = "clear"]
    /\ UNCHANGED <<fs, watches, ignores, prev, ret, trav, main, glob, sched, writer, hist>>

\* prev = nil in the goroutine of p
ClearPrev ==
    /\ \E p \in Pids :
          /\ cmd.wait[p] = "clear"
          /\ cmd' = [cmd EXCEPT !.prev = 0, !.wait[p] = "signal"]
    /\ UNCHANGED <<fs, watches, ignores, prev, ret, trav, main, glob, sched, writer, hist>>

\* ready <- true in the goroutine of p; the channel holds one value
ReadyBack ==
    /\ \E p \in Pids :
          /\ cmd.wait[p] = "signal"
          /\ cmd.ready = 0
          /\ cmd' = [cmd EXCEPT !.ready = 1, !.wait[p] = "done"]
    /\ UNCHANGED <<fs, watches, ignores, prev, ret, trav, main, glob, sched, writer, hist>>

NextCmd ==
    \/ Boot \/ killCmd \/ AwaitReady \/ Start \/ StorePrev \/ LoopScan
    \/ ProcExit \/ WaitReturn \/ ClearPrev \/ ReadyBack

\* main and the goroutines are scheduled; a command need not end
SpecCmd ==
    /\ InitCmd
    /\ [][NextCmd]_vars
    /\ WF_vars(Boot) /\ WF_vars(killCmd) /\ WF_vars(AwaitReady)
    /\ WF_vars(Start) /\ WF_vars(StorePrev) /\ WF_vars(LoopScan)
    /\ WF_vars(WaitReturn) /\ WF_vars(ClearPrev) /\ WF_vars(ReadyBack)

C22_ExecuteCmdReturns == (main.pc = "await") ~> (main.pc = "exec")

\* C29: at most one process is started and not yet reaped, and while a
\* process is alive the goroutine of every other process has returned
\* the token and ended
C29_OneChildAlive ==
    /\ Cardinality(Alive) <= 1
    /\ \A p \in Alive : \A q \in Pids \ {p} : cmd.wait[q] \in {"none", "done"}

C29_Witness ==
    /\ cmd.proc[1] = "reaped"
    /\ cmd.proc[2] = "reaped"
    /\ cmd.proc[3] = "running"

\* C30: prev is not nil only while its process is started and not reaped,
\* and killCmd has never sent the signal to a process that had been reaped
C30_PrevIsAlive ==
    /\ cmd.prev # 0 => cmd.prev \in Alive
    /\ ~cmd.stale

---------------------------------------------------------------------------
(* The scan loop's schedule (main.go, the version with the spinner) *)

\* the watch intervals main is run with, and the time it is followed for
MaxInterval == 400
MaxSlept == 1000

\* a schedule that does not count the time slept before a scan against
\* the next tick
nextSleepNoCarry(nextWatch, nextTick, watchInterval) ==
    IF nextTick < nextWatch
        THEN [sleep |-> nextTick, nextWatch |-> nextWatch - nextTick,
              nextTick |-> tickInterval]
    ELSE IF nextTick > nextWatch
        THEN [sleep |-> nextWatch, nextWatch |-> watchInterval,
              nextTick |-> tickInterval]
    ELSE [sleep |-> nextTick, nextWatch |-> watchInterval,
          nextTick |-> tickInterval]

\* the three cases of the loop with the spinner enabled: the next
\* iteration is a tick, a watch, or both
nextSleep(nextWatch, nextTick, watchInterval) ==
    IF nextTick < nextWatch
        THEN [sleep |-> nextTick, nextWatch |-> nextWatch - nextTick,
              nextTick |-> tickInterval]
    ELSE IF nextTick > nextWatch
        THEN [sleep |-> nextWatch, nextWatch |-> watchInterval,
              nextTick |-> nextTick - nextWatch]
    ELSE [sleep |-> nextTick, nextWatch |-> watchInterval,
          nextTick |-> tickInterval]

InitSched ==
    /\ fs = InitFs
    /\ watches = <<>>
    /\ ignores = <<>>
    /\ prev = NilPrev
    /\ ret = NoRet
    /\ trav = NoTrav
    /\ glob = NoGlob
    /\ main = NoMain
    /\ cmd = NoCmd
    /\ writer = NoWriter
    /\ hist = NoHist
    /\ \E w \in 1..MaxInterval, b \in BOOLEAN :
          sched = [NoSched EXCEPT !.watchInterval = w, !.noSpinner = b,
                                  !.nextWatch = w]

\* one iteration of the scan loop, the scan and the command left out
Iterate ==
    /\ sched.slept < MaxSlept
    /\ LET n == nextSleep(sched.nextWatch, sched.nextTick, sched.watchInterval)
           sleep == IF sched.noSpinner THEN sched.watchInterval ELSE n.sleep
       IN sched' = [sched EXCEPT
              !.scanned = (sched.nextWatch = sched.watchInterval),
              !.ticked = (~sched.noSpinner /\ sched.nextTick = tickInterval),
              !.nextWatch = IF sched.noSpinner THEN @ ELSE n.nextWatch,
              !.nextTick = IF sched.noSpinner THEN @ ELSE n.nextTick,
              !.sleep = sleep,
              !.iterations = @ + 1,
              !.at = sched.slept,
              !.slept = @ + sleep]
    /\ UNCHANGED <<fs, watches, ignores, prev, ret, trav, main, glob, cmd, writer, hist>>

NextSched == Iterate

SpecSched == InitSched /\ [][NextSched]_vars

Min(a, b) == IF a < b THEN a ELSE b

\* C24: with the spinner, the iteration that begins after at milliseconds
\* of sleep scans exactly if at is a multiple of the watch interval and
\* ticks exactly if at is a multiple of tickInterval, and then sleeps more
\* than nothing and no more than the smaller interval; without the
\* spinner every iteration scans and sleeps the watch interval
C24_ScansAndTicksOnMultiples ==
    sched.iterations > 0 =>
        IF sched.noSpinner
            THEN sched.scanned /\ sched.sleep = sched.watchInterval
        ELSE /\ sched.scanned <=> (sched.at % sched.watchInterval = 0)
             /\ sched.ticked <=> (sched.at % tickInterval = 0)
             /\ sched.sleep > 0
             /\ sched.sleep <= Min(sched.watchInterval, tickInterval)

C24_Witness ==
    /\ ~sched.noSpinner
    /\ sched.watchInterval = 150
    /\ sched.at = 300
    /\ sched.scanned
    /\ sched.ticked

---------------------------------------------------------------------------
(* CmdWriter (writer/writer.go) *)

\* the longest argument of write, and the longest buffer followed
MaxWrite == 2
MaxBuffer == 4

Nl == "\n"

\* strings.IndexAny(s, "\n"), counted from 1: the first newline from i
\* on, or 0
RECURSIVE IndexNl(_, _)
IndexNl(s, i) ==
    IF i > Len(s) THEN 0
    ELSE IF s[i] = Nl THEN i
    ELSE IndexNl(s, i + 1)

\* the loop of write: every line of the buffer, its newline included, is
\* written to the file and cut off the buffer
RECURSIVE writeLines(_, _)
writeLines(buffer, wrote) ==
    LET index == IndexNl(buffer, 1) IN
    IF index = 0 THEN [buffer |-> buffer, wrote |-> wrote]
    ELSE writeLines(Drop(buffer, index), wrote \o SubSeq(buffer, 1, index))

\* a write that looks for a newline once instead of in a loop
writeFirstLine(buffer, p) ==
    LET b == buffer \o p
        index == IndexNl(b, 1) IN
    IF index = 0 THEN [buffer |-> b, wrote |-> <<>>]
    ELSE [buffer |-> Drop(b, index), wrote |-> SubSeq(b, 1, index)]

\* CmdWriter.write(p) on a buffer: the buffer left and what was written
write(buffer, p) == writeLines(buffer \o p, <<>>)

\* CmdWriter.Flush on a buffer: write is given the buffer itself, and
\* what is then in the buffer is written with a newline and stays
flush(buffer) ==
    LET r == write(buffer, buffer) IN
    [buffer |-> r.buffer,
     wrote |-> IF Len(r.buffer) > 0 THEN r.wrote \o r.buffer \o <<Nl>>
               ELSE r.wrote]

InitWriter ==
    /\ fs = InitFs
    /\ watches = <<>>
    /\ ignores = <<>>
    /\ prev = NilPrev
    /\ ret = NoRet
    /\ trav = NoTrav
    /\ glob = NoGlob
    /\ main = NoMain
    /\ cmd = NoCmd
    /\ sched = NoSched
    /\ writer = NoWriter
    /\ hist = NoHist

WriterWrite ==
    /\ \E p \in Strings({"a", "b", Nl}, MaxWrite) :
          LET r == write(writer.buffer, p) IN
          /\ Len(r.buffer) <= MaxBuffer
          /\ writer' = [buffer |-> r.buffer, op |-> "write",
                        pre |-> writer.buffer, wrote |-> r.wrote]
    /\ UNCHANGED <<fs, watches, ignores, prev, ret, trav, main, glob, cmd, sched, hist>>

WriterFlush ==
    /\ LET r == flush(writer.buffer) IN
          /\ Len(r.buffer) <= MaxBuffer
          /\ writer' = [buffer |-> r.buffer, op |-> "Flush",
                        pre |-> writer.buffer, wrote |-> r.wrote]
    /\ UNCHANGED <<fs, watches, ignores, prev, ret, trav, main, glob, cmd, sched, hist>>

NextWriter == WriterWrite \/ WriterFlush

SpecWriter == InitWriter /\ [][NextWriter]_vars

\* C25: Flush writes the partial line it finds in the buffer once,
\* followed by a newline, and nothing if it finds none, and leaves the
\* buffer empty
C25_FlushWritesPartialOnce ==
    writer.op = "Flush" =>
        /\ writer.buffer = <<>>
        /\ writer.wrote = IF writer.pre = <<>> THEN <<>>
                          ELSE writer.pre \o <<Nl>>

---------------------------------------------------------------------------
(* CmdWriter.write, call after call, with all that was written and all     *)
(* that was given to the file                                              *)

\* the most bytes written in all
MaxWritten == 5

InitWrites ==
    /\ fs = InitFs
    /\ watches = <<>>
    /\ ignores = <<>>
    /\ prev = NilPrev
    /\ ret = NoRet
    /\ trav = NoTrav
    /\ glob = NoGlob
    /\ main = NoMain
    /\ cmd = NoCmd
    /\ sched = NoSched
    /\ writer = [buffer |-> <<>>, op |-> "none", p |-> <<>>,
                 all |-> <<>>, out |-> <<>>]
    /\ hist = NoHist

\* w.write(p): all is every p so far, out every line given to
\* writeLineToKeepWithoutPrefix so far
CmdWriterWrite ==
    /\ \E p \in Strings({"a", "b", Nl}, MaxWrite) :
          LET r == write(writer.buffer, p) IN
          /\ Len(writer.all) + Len(p) <= MaxWritten
          /\ writer' = [buffer |-> r.buffer, op |-> "write", p |-> p,
                        all |-> writer.all \o p,
                        out |-> writer.out \o r.wrote]
    /\ UNCHANGED <<fs, watches, ignores, prev, ret, trav, main, glob, cmd, sched, hist>>

SpecWrites == InitWrites /\ [][CmdWriterWrite]_vars

\* C35: after any sequence of write calls, what was given to the file
\* followed by the buffer is all that was written, in order; what was
\* given to the file ends with a newline (complete lines only), and the
\* buffer holds no newline
C35_WritesAreKept ==
    /\ writer.out \o writer.buffer = writer.all
    /\ IndexNl(writer.buffer, 1) = 0
    /\ writer.out # <<>> => writer.out[Len(writer.out)] = Nl

C35_Witness ==
    /\ writer.op = "write"
    /\ writer.p = <<Nl, "a">>
    /\ writer.out = <<"a", Nl, "b", Nl>>
    /\ writer.buffer = <<"a">>

---------------------------------------------------------------------------
(* One scan of a directory tree (watcher.go, scan) *)

InitScan ==
    /\ \E sh \in Shapes :
          fs = [n \in Nodes |-> IF sh[n].kind = "none" THEN Absent
                                ELSE [kind |-> sh[n].kind, mt |-> 1]]
    /\ watches = <<>>
    /\ ignores = <<>>
    /\ prev = NilPrev
    /\ ret = NoRet
    /\ \E paths \in SUBSET Nodes :
          /\ Cardinality(paths) <= MaxPaths
          /\ \A p \in paths : Exists(fs, p)
          /\ trav = [NoTrav EXCEPT !.paths = paths]
    /\ glob = NoGlob
    /\ main = NoMain
    /\ cmd = NoCmd
    /\ sched = NoSched
    /\ writer = NoWriter
    /\ hist = NoHist

\* scan(paths) that met fault, once it has returned r
ScanTreeGiven(fault, r) ==
    /\ ret' = [NoRet EXCEPT !.op = "scan", !.err = r.err,
                            !.latest = r.m, !.fault = fault,
                            !.depth = scanDepth(fs, fault, trav.paths)]
    /\ fs' = AfterFault(fs, fault)
    /\ UNCHANGED <<watches, ignores, prev, trav, main, glob, cmd, sched, writer, hist>>

ScanTreeOn(visited) ==
    \E fault \in FaultsOn(fs, visited) :
       ScanTreeGiven(fault, scan(fs, fault, trav.paths))

\* scan(paths), for paths that getWatches found to exist
ScanTree ==
    /\ ret.op = "none"
    /\ ScanTreeOn(DOMAIN scan(fs, NoFault, trav.paths).m)

NextScan == ScanTree

SpecScan == InitScan /\ [][NextScan]_vars /\ WF_vars(ScanTree)

\* the levels of f at and below paths (a path of paths is level 1) that
\* hold an entry of the given kinds
Levels(f, paths, kinds) ==
    Max({Len(Split(n)) - Len(Split(p)) + 1 :
            <<p, n>> \in {x \in paths \X Nodes :
                             /\ x[2] \in Below[x[1]]
                             /\ Exists(f, x[2])
                             /\ f[x[2]].kind \in kinds}})

\* C26: a scan of a tree ends, with its targets or with an error, and the
\* calls of scan below the first are nested no deeper than the tree at
\* and below the watched paths has levels (what has vanished under the
\* scan not counted), and exactly as deep as its directories go if
\* nothing fails
C26_ScanEndsWithinDepth ==
    /\ <>(ret.op = "scan")
    /\ [](ret.op = "scan" =>
            /\ ret.depth - 1 <= Levels(fs, trav.paths, {"file", "dir"})
            /\ ret.fault = NoFault =>
                  ret.depth - 1 = Levels(fs, trav.paths, {"dir"}))

C26_Witness ==
    /\ ret.op = "scan"
    /\ ~ret.err
    /\ ret.depth = 5
    /\ trav.paths = {Root, NodeE}

---------------------------------------------------------------------------
(* Scans in sequence: what a scan returns after the scans before it *)

\* the failed scans in a row that are followed
MaxFails == 2

\* the watcher whose scans are followed
CycleSetups == {Watch(Watch(New, ArgABC), ArgE)}

InitCycles ==
    /\ fs = InitFs
    /\ \E w \in CycleSetups :
          /\ watches = w.watches
          /\ ignores = w.ignores
          /\ prev = w.prev
    /\ ret = NoRet
    /\ trav = NoTrav
    /\ main = NoMain
    /\ glob = NoGlob
    /\ cmd = NoCmd
    /\ sched = NoSched
    /\ writer = NoWriter
    /\ hist = NoHist

\* ScanForEvents or ScanForChange (op) that has returned r, and what is
\* remembered of the calls before it
CycleGiven(op, fault, r) ==
    /\ r.err => hist.failed < MaxFails
    /\ prev' = r.prev
    /\ ret' = [NoRet EXCEPT !.op = op, !.err = r.err, !.events = r.events,
                            !.changed = r.changed, !.pre = prev,
                            !.latest = r.latest, !.fault = fault]
    /\ hist' = [good |-> IF r.err THEN hist.good ELSE r.prev,
                failed |-> IF r.err THEN hist.failed + 1 ELSE 0,
                from |-> hist.good,
                after |-> hist.failed,
                last |-> IF ret.err THEN NoHist.last
                         ELSE [op |-> ret.op,
                               differed |-> ret.changed \/ ret.events # <<>>]]
    /\ fs' = AfterFault(fs, fault)
    /\ UNCHANGED <<watches, ignores, trav, main, glob, cmd, sched, writer>>

\* scanAndCheck or scanAndCheckBool on what the scan returned
CycleCheck(op, latest, ord) ==
    IF op = "ScanForEvents"
        THEN [changed |-> FALSE, latest |-> latest.m]
                 @@ scanAndCheck(latest, prev, ord)
    ELSE [events |-> <<>>, latest |-> latest.m]
             @@ scanAndCheckBool(latest, prev, ord)

CycleOn(op, fault, latest) ==
    \E ord \in RangeOrders(prev, latest) :
       CycleGiven(op, fault, CycleCheck(op, latest, ord))

CycleScan(op, ws) ==
    \E fault \in Faults(fs, ws) : CycleOn(op, fault, resolve(fs, fault, ws))

CycleEvents == CycleScan("ScanForEvents", getWatches(fs, watches, ignores))

CycleChange == CycleScan("ScanForChange", getWatches(fs, watches, ignores))

NextCycles ==
    \/ Create
    \/ Touch
    \/ Remove
    \/ CycleEvents
    \/ CycleChange

SpecCycles == InitCycles /\ [][NextCycles]_vars

\* C27: the events of a successful ScanForEvents are the difference
\* between Watcher.prev as the last successful scan left it and the set
\* now resolved, however many scans have failed and whatever has been
\* added, changed or removed since
C27_NoChangeLostAcrossFailures ==
    (ret.op = "ScanForEvents" /\ ~ret.err /\ ~hist.from.nil) =>
        LET B == hist.from.m
            L == ret.latest
            expected ==
                {MkEvent(Added, p, L[p]) : p \in DOMAIN L \ DOMAIN B}
                \cup {MkEvent(Changed, p, L[p]) :
                         p \in {q \in DOMAIN L \cap DOMAIN B : B[q].mt # L[q].mt}}
                \cup {MkEvent(Removed, p, B[p]) : p \in DOMAIN B \ DOMAIN L}
        IN  /\ {ret.events[i] : i \in 1..Len(ret.events)} = expected
            /\ Len(ret.events) = Cardinality(expected)

\* a ScanForEvents that reports an added and a removed path after two
\* failed scans
C27_Witness ==
    /\ ret.op = "ScanForEvents" /\ ~ret.err /\ ~hist.from.nil
    /\ hist.after = MaxFails
    /\ \A t \in {Added, Removed} :
          \E i \in 1..Len(ret.events) : ret.events[i].Type = t

\* C28: a successful scan of either kind that follows a successful scan
\* of either kind, the file system unchanged between them, returns no
\* events and false
C28_ReportedAtMostOnce ==
    (/\ ret.op \in {"ScanForEvents", "ScanForChange"} /\ ~ret.err
     /\ hist.last.op \in {"ScanForEvents", "ScanForChange"})
        => (ret.events = <<>> /\ ~ret.changed)

\* a ScanForEvents right after a ScanForChange that returned true
C28_Witness ==
    /\ ret.op = "ScanForEvents" /\ ~ret.err
    /\ hist.last.op = "ScanForChange" /\ hist.last.differed
    /\ Cardinality(DOMAIN ret.latest) >= 2

\* the goroutines that have been launched and have not yet sent their token
Owing == {p \in Pids : cmd.wait[p] \in {"wait", "clear", "signal"}}

\* C32: the tokens in the channel ready and the goroutines that have yet
\* to send theirs are never more than one together, so a goroutine that
\* reaches ready <- true finds the channel empty and does not block
C32_ReadyNeverOverfull ==
    /\ cmd.ready + Cardinality(Owing) <= 1
    /\ \A p \in Pids : cmd.wait[p] = "signal" => cmd.ready = 0

C32_Witness ==
    /\ cmd.wait[1] = "done"
    /\ cmd.wait[2] = "signal"
    /\ cmd.ready = 0

---------------------------------------------------------------------------
(* A termination signal (main.go, the function given to graceful.OnSignal) *)

\* the function given to graceful.OnSignal is called, on the goroutine
\* that received the signal, and has got as far as the end of its killCmd
OnSignal ==
    /\ cmd.signal = "none"
    /\ cmd' = IF cmd.prev = 0 THEN [cmd EXCEPT !.signal = "killed"]
              ELSE [cmd EXCEPT !.proc[cmd.prev] = IF @ = "running" THEN "exited" ELSE @,
                               !.stale = @ \/ cmd.proc[cmd.prev] = "reaped",
                               !.signal = "killed"]
    /\ UNCHANGED <<fs, watches, ignores, prev, ret, trav, main, glob, sched,
                   writer, hist>>

\* spin.Done(); os.Exit(0): main and the goroutines are no more
OnSignalExit ==
    /\ cmd.signal = "killed"
    /\ cmd' = [cmd EXCEPT !.signal = "exited"]
    /\ UNCHANGED <<fs, watches, ignores, prev, ret, trav, main, glob, sched,
                   writer, hist>>

NextSignal ==
    \/ cmd.signal # "exited" /\ NextCmd
    \/ OnSignal
    \/ OnSignalExit

SpecSignal == InitCmd /\ [][NextSignal]_vars

\* C33: when the program has exited on a signal, no process that
\* executeCmd started is still running
C33_ExitLeavesNoChild ==
    cmd.signal = "exited" => \A p \in Pids : cmd.proc[p] # "running"

---------------------------------------------------------------------------
(* The command in the first version of main.go (lines 95-144): killCmd and *)
(* executeCmd under the mutex mu, without the channel ready                *)

\* executeCmd(cmd) is entered for the first time
BootFirst ==
    /\ main.pc = "boot"
    /\ main' = [main EXCEPT !.pc = "kill"]
    /\ UNCHANGED <<fs, watches, ignores, prev, ret, trav, glob, cmd, sched,
                   writer, hist>>

\* the rest of executeCmd after killCmd, one critical section of mu:
\* c.Start(), the goroutine that waits, prev = c; or Start fails
StartFirst ==
    /\ main.pc = "await"
    /\ \E p \in Pids : cmd.proc[p] = "none"
    /\ \E ok \in BOOLEAN :
          cmd' = IF ok
                     THEN [cmd EXCEPT !.c = NextPid, !.prev = NextPid,
                                      !.proc[NextPid] = "running",
                                      !.wait[NextPid] = "wait",
                                      !.starts = @ + 1]
                 ELSE [cmd EXCEPT !.failed = TRUE]
    /\ main' = [main EXCEPT !.pc = "sleep"]
    /\ UNCHANGED <<fs, watches, ignores, prev, ret, trav, glob, sched, writer,
                   hist>>

\* mu.Lock(); prev = nil; mu.Unlock() in the goroutine of p, which ends
ClearPrevFirst ==
    /\ \E p \in Pids :
          /\ cmd.wait[p] = "clear"
          /\ cmd' = [cmd EXCEPT !.prev = 0, !.wait[p] = "done"]
    /\ UNCHANGED <<fs, watches, ignores, prev, ret, trav, main, glob, sched,
                   writer, hist>>

NextCmdFirst ==
    \/ BootFirst \/ killCmd \/ StartFirst \/ LoopScan
    \/ ProcExit \/ WaitReturn \/ ClearPrevFirst

SpecCmdFirst == InitCmd /\ [][NextCmdFirst]_vars

\* C31: in the first version, a process that executeCmd started and that
\* is still running is the one prev refers to, so that the next killCmd
\* kills it; no goroutine of an older process sets prev to nil after prev
\* was set to a newer one
C31_PrevIsTheRunningChild ==
    \A p \in Pids : cmd.proc[p] = "running" => cmd.prev = p

---------------------------------------------------------------------------
(* CmdWriter.Proxy (writer/writer.go 134-164): one caller that gives the   *)
(* writer one source after the other, the goroutine of each source, and    *)
(* the command that writes lines to a source and closes it                 *)

\* the sources given to Proxy, and the lines a source holds unread
MaxSources == 3
MaxLines == 2
Sources == 1..MaxSources

\* NewCmd: no proxy, nobody holds w.mu
InitProxy ==
    /\ fs = InitFs
    /\ watches = <<>>
    /\ ignores = <<>>
    /\ prev = NilPrev
    /\ ret = NoRet
    /\ trav = NoTrav
    /\ glob = NoGlob
    /\ main = NoMain
    /\ cmd = NoCmd
    /\ sched = NoSched
    /\ writer = [pc |-> "idle", mu |-> FALSE, f |-> 0, proxy |-> 0,
                 scanner |-> 0, exited |-> FALSE,
                 go |-> [s \in Sources |-> "none"],
                 avail |-> [s \in Sources |-> 0],
                 closed |-> [s \in Sources |-> FALSE]]
    /\ hist = NoHist

\* Proxy(f): w.mu.Lock(), and the test of w.proxy
ProxyLock ==
    /\ ~writer.exited
    /\ writer.pc = "idle"
    /\ ~writer.mu
    /\ writer.proxy < MaxSources
    /\ writer' = [writer EXCEPT !.mu = TRUE, !.f = writer.proxy + 1,
                                !.pc = IF writer.proxy # 0 THEN "kill"
                                       ELSE "set"]
    /\ UNCHANGED <<fs, watches, ignores, prev, ret, trav, main, glob, cmd, sched, hist>>

\* <-w.kill meets the w.kill <- true of a goroutine (the channel has no
\* buffer), which ends
ProxyKill ==
    /\ ~writer.exited
    /\ writer.pc = "kill"
    /\ \E g \in Sources :
          /\ writer.go[g] = "kill"
          /\ writer' = [writer EXCEPT !.go[g] = "done", !.pc = "set"]
    /\ UNCHANGED <<fs, watches, ignores, prev, ret, trav, main, glob, cmd, sched, hist>>

\* w.proxy = f, the new scanner, w.mu.Unlock(), and the goroutine
ProxySet ==
    /\ ~writer.exited
    /\ writer.pc = "set"
    /\ writer' = [writer EXCEPT !.proxy = writer.f, !.scanner = writer.f,
                                !.mu = FALSE, !.pc = "idle",
                                !.go[writer.f] = "scan"]
    /\ UNCHANGED <<fs, watches, ignores, prev, ret, trav, main, glob, cmd, sched, hist>>

\* w.scanner.Scan() of goroutine g: a line, or the end of the source,
\* with no error or the pty's, or with another one (os.Exit(3))
GoScan(g) ==
    /\ ~writer.exited
    /\ writer.go[g] = "scan"
    /\ LET s == writer.scanner IN
       \/ /\ writer.avail[s] > 0
          /\ writer' = [writer EXCEPT !.avail[s] = @ - 1, !.go[g] = "write"]
       \/ /\ writer.avail[s] = 0
          /\ writer.closed[s]
          /\ \E err \in {"nil", "pty", "other"} :
                writer' = IF err = "other"
                          THEN [writer EXCEPT !.exited = TRUE]
                          ELSE [writer EXCEPT !.go[g] = "kill"]
    /\ UNCHANGED <<fs, watches, ignores, prev, ret, trav, main, glob, cmd, sched, hist>>

\* w.write(line) of goroutine g, which needs w.mu from its first
\* statement to its return
GoWrite(g) ==
    /\ ~writer.exited
    /\ writer.go[g] = "write"
    /\ ~writer.mu
    /\ writer' = [writer EXCEPT !.go[g] = "scan"]
    /\ UNCHANGED <<fs, watches, ignores, prev, ret, trav, main, glob, cmd, sched, hist>>

\* the command writes a line to a source it was given
Produce(s) ==
    /\ ~writer.exited
    /\ s \in {writer.f, writer.proxy}
    /\ ~writer.closed[s]
    /\ writer.avail[s] < MaxLines
    /\ writer' = [writer EXCEPT !.avail[s] = @ + 1]
    /\ UNCHANGED <<fs, watches, ignores, prev, ret, trav, main, glob, cmd, sched, hist>>

\* the source is at its end of input once what it holds is read
Close(s) ==
    /\ ~writer.exited
    /\ s \in {writer.f, writer.proxy}
    /\ ~writer.closed[s]
    /\ writer' = [writer EXCEPT !.closed[s] = TRUE]
    /\ UNCHANGED <<fs, watches, ignores, prev, ret, trav, main, glob, cmd, sched, hist>>

\* a step of Proxy or of a goroutine
ProxyStep ==
    \/ ProxyLock
    \/ ProxyKill
    \/ ProxySet
    \/ \E g \in Sources : GoScan(g)
    \/ \E g \in Sources : GoWrite(g)

NextProxy ==
    \/ ProxyStep
    \/ \E s \in Sources : Produce(s)
    \/ \E s \in Sources : Close(s)

SpecProxy == InitProxy /\ [][NextProxy]_vars

\* C36: a Proxy that waits for the goroutine of the previous source, whose
\* source is at its end of input, is never stuck: Proxy or a goroutine
\* can take a step
C36_ProxyNeverDeadlocks ==
    (/\ writer.pc = "kill"
     /\ writer.closed[writer.proxy]
     /\ ~writer.exited) => ENABLED ProxyStep

---------------------------------------------------------------------------
(* The lines of the writers (writer/writer.go 22-105): every writer goes   *)
(* through writeString under the package's mu, with the package's          *)
(* shouldOverwritePreviousLine                                             *)

\* the writes followed
MaxLog == 3

\* cursor.ClearLine, and the carriage return
ClearLine == <<"ESC", "[", "2", "K">>
Cr == "\r"

Files == {"stdout", "stderr"}

\* a writeString that clears the line before every string
writeStringAlways(shouldOverwritePreviousLine, str) ==
    ClearLine \o <<Cr>> \o str

\* writeString(file, str): what is given to the file
writeString(shouldOverwritePreviousLine, str) ==
    IF shouldOverwritePreviousLine THEN ClearLine \o <<Cr>> \o str
    ELSE str

InitLines ==
    /\ fs = InitFs
    /\ watches = <<>>
    /\ ignores = <<>>
    /\ prev = NilPrev
    /\ ret = NoRet
    /\ trav = NoTrav
    /\ glob = NoGlob
    /\ main = NoMain
    /\ cmd = NoCmd
    /\ sched = NoSched
    /\ writer = [shouldOverwritePreviousLine |-> FALSE, log |-> <<>>]
    /\ hist = NoHist

\* one critical section of mu: fn gives str to file through writeString
\* and sets the flag
writeLine(fn, file, str, flag) ==
    /\ Len(writer.log) < MaxLog
    /\ writer' = [shouldOverwritePreviousLine |-> flag,
                  log |-> Append(writer.log,
                      [fn |-> fn, file |-> file,
                       out |-> writeString(writer.shouldOverwritePreviousLine,
                                           str)])]
    /\ UNCHANGED <<fs, watches, ignores, prev, ret, trav, main, glob, cmd, sched, hist>>

\* PrettyWriter.Write and WriteStringf, and the error of a proxy
writeLineToKeepWithPrefix ==
    \E file \in Files :
       writeLine("writeLineToKeepWithPrefix", file, <<"p", "x", Nl>>, FALSE)

\* PrettyWriter.WriteAndFlagToReplace
writeLineToBeReplacedWithPrefix ==
    \E file \in Files :
       writeLine("writeLineToBeReplacedWithPrefix", file, <<"p", "x">>, TRUE)

\* a line of CmdWriter.write or of CmdWriter.Flush
writeLineToKeepWithoutPrefix ==
    \E file \in Files :
       writeLine("writeLineToKeepWithoutPrefix", file, <<"x", Nl>>, FALSE)

NextLines ==
    \/ writeLineToKeepWithPrefix
    \/ writeLineToBeReplacedWithPrefix
    \/ writeLineToKeepWithoutPrefix

SpecLines == InitLines /\ [][NextLines]_vars

\* what was given to the file starts with the clear-line sequence and the
\* carriage return
Clears(out) ==
    /\ Len(out) > Len(ClearLine)
    /\ SubSeq(out, 1, Len(ClearLine) + 1) = ClearLine \o <<Cr>>

=============================================================================
